---- MODULE Spec2Model ----
\* Model of the nawala checking engine (src/src/nawala): the bounded
\* dispatcher Checker.Check, the per-domain failover checkSingle, the retry
\* loop queryWithRetries, the in-memory result cache and the DNS probe
\* classification.  Go strings are sequences of one-character strings so that
\* normalisation, validation, keyword matching and cache-key formatting are
\* computed, not assumed.
EXTENDS Integers, Sequences, FiniteSets, TLC

\* ------------------------------------------------------------------ bounds
\* Largest number of domains handed to one Check call.
MaxDomains == 2
\* Largest concurrency limit (capacity of the semaphore channel) explored.
MaxConcurrency == 2
\* Largest maxRetries explored under Spec (several concurrent workers).
MaxRetriesCheck == 1
\* Largest maxRetries explored under SpecOne (a single CheckOne call).
MaxRetries == 2
\* Clock ticks explored.
MaxTime == 2
\* CheckOne calls made in one behaviour of SpecOne.
MaxCalls == 2
\* Largest maxRetries explored under SpecBackoff (one resolver that never
\* answers).
MaxManyRetries == 66
\* Options passed to one call of New.
MaxOpts == 2
\* The integer arguments of the options are -MaxArg..MaxArg.
MaxArg == 1
\* Goroutines that use the memoryCache directly under SpecCache.
MaxClients == 2
\* Goroutines that call SetServers or DeleteServers, once each, under SpecReg.
MaxWriters == 2
\* Servers() calls made in one behaviour of SpecReg.
MaxReads == 1

\* -------------------------------------------------------- program constants
defaultConcurrency == 100

defaultRetries == 2

\* ------------------------------------------------------------- Go strings
Upper == <<"A","B","C","D","E","F","G","H","I","J","K","L","M",
           "N","O","P","Q","R","S","T","U","V","W","X","Y","Z">>
Lower == <<"a","b","c","d","e","f","g","h","i","j","k","l","m",
           "n","o","p","q","r","s","t","u","v","w","x","y","z">>
Digits == <<"0","1","2","3","4","5","6","7","8","9">>

Range(f) == {f[x] : x \in DOMAIN f}

IsLetter(c) == c \in Range(Upper) \cup Range(Lower)

IsDigit(c) == c \in Range(Digits)

IsSpace(c) == c \in {" ", "\t", "\n", "\r"}

\* unicode.ToLower on one ASCII character.
LowerChar(c) ==
    IF c \in Range(Upper)
    THEN Lower[CHOOSE k \in DOMAIN Upper : Upper[k] = c]
    ELSE c

\* strings.ToLower
ToLower(s) == [k \in DOMAIN s |-> LowerChar(s[k])]

\* strings.ToUpper
ToUpper(s) ==
    [k \in DOMAIN s |->
        IF s[k] \in Range(Lower)
        THEN Upper[CHOOSE j \in DOMAIN Lower : Lower[j] = s[k]]
        ELSE s[k]]

RECURSIVE TrimLeft(_)
TrimLeft(s) ==
    IF s # <<>> /\ IsSpace(Head(s)) THEN TrimLeft(Tail(s)) ELSE s

RECURSIVE TrimRight(_)
TrimRight(s) ==
    IF s # <<>> /\ IsSpace(s[Len(s)])
    THEN TrimRight(SubSeq(s, 1, Len(s) - 1))
    ELSE s

\* strings.TrimSpace
TrimSpace(s) == TrimRight(TrimLeft(s))

\* strings.TrimSuffix(s, ".")
TrimSuffixDot(s) ==
    IF s # <<>> /\ s[Len(s)] = "." THEN SubSeq(s, 1, Len(s) - 1) ELSE s

\* strings.Contains
Contains(s, sub) ==
    \E k \in 0..(Len(s) - Len(sub)) : SubSeq(s, k + 1, k + Len(sub)) = sub

\* strings.Split(s, "."): the labels between the dots, empty labels included.
RECURSIVE SplitDot(_)
SplitDot(s) ==
    IF \A k \in DOMAIN s : s[k] # "."
    THEN <<s>>
    ELSE LET d == CHOOSE k \in DOMAIN s :
                      s[k] = "." /\ \A j \in 1..(k - 1) : s[j] # "."
         IN  <<SubSeq(s, 1, d - 1)>> \o SplitDot(SubSeq(s, d + 1, Len(s)))

\* fmt's %d of a non-negative integer.
RECURSIVE Itoa(_)
Itoa(n) ==
    IF n < 10 THEN <<Digits[n + 1]>>
    ELSE Itoa(n \div 10) \o <<Digits[(n % 10) + 1]>>

\* ------------------------------------------------------ domain validation
isValidLabel(label) ==
    /\ Len(label) # 0
    /\ Len(label) <= 63
    /\ label[1] # "-"
    /\ label[Len(label)] # "-"
    /\ \A k \in DOMAIN label :
          IsLetter(label[k]) \/ IsDigit(label[k]) \/ label[k] \in {"-", "_"}

isValidTLD(label) ==
    /\ Len(label) >= 2
    /\ \/ Len(label) > 4 /\ ToLower(SubSeq(label, 1, 4)) = <<"x","n","-","-">>
       \/ \A k \in DOMAIN label : IsLetter(label[k])

IsValidDomain(domain) ==
    LET d      == TrimSuffixDot(domain)
        labels == SplitDot(d)
    IN  /\ d # <<>>
        /\ Len(d) <= 255
        /\ Len(labels) >= 2
        /\ \A i \in DOMAIN labels :
              /\ isValidLabel(labels[i])
              /\ (i = Len(labels) => isValidTLD(labels[i]))

normalizeDomain(domain) == ToLower(TrimSpace(domain))

\* ------------------------------------------------------------ values
\* History: the context has not been cancelled.
NoCancel == [blocked |-> 0, done |-> {}, wait |-> 0, visit |-> 0, call |-> 0]

\* A Go error: the sentinel errors.Is finds in it, and the wrapped detail.
Err(is, txt) == [is |-> is, txt |-> txt]

NoError == Err("nil", <<>>)

\* Result{Domain, Blocked, Server, Error} (types.go).
Result(d, b, s, e) == [Domain |-> d, Blocked |-> b, Server |-> s, Error |-> e]

\* The zero Result of make([]Result, n) and of Result{}.
ZeroResult == Result(<<>>, FALSE, <<>>, NoError)

\* What queryWithRetries returned: (result, nil), (Result{}, err), or
\* nothing yet.
Ok(res) == [state |-> "ok", res |-> res, err |-> NoError]

Failed(e) == [state |-> "err", res |-> ZeroResult, err |-> e]

Running == [state |-> "running", res |-> ZeroResult, err |-> NoError]

NotCalled == [state |-> "none", res |-> ZeroResult, err |-> NoError]

\* DNSServer{Address, Keyword, QueryType}.
DNSServer(a, k, q) == [Address |-> a, Keyword |-> k, QueryType |-> q]

\* The zero DNSServer, as in freshly allocated memory.
ZeroServer == DNSServer(<<>>, <<>>, <<>>)

\* ------------------------------------------------------------ DNS probe
parseQueryType(qtype) ==
    LET q == ToUpper(TrimSpace(qtype))
    IN  CASE q = <<"A">> -> 1
          [] q = <<"A","A","A","A">> -> 28
          [] q = <<"C","N","A","M","E">> -> 5
          [] q = <<"M","X">> -> 15
          [] q = <<"N","S">> -> 2
          [] q = <<"T","X","T">> -> 16
          [] q = <<"S","O","A">> -> 6
          [] q = <<"S","R","V">> -> 33
          [] q = <<"A","N","Y">> -> 255
          [] OTHER -> 1

\* What the transport (dns.Client.ExchangeContext) can answer while the
\* context is live: a response, given as the String() of each of its resource
\* records, or a transport error that is or is not a net timeout.
Responses ==
    { <<>>,
      << <<"o","k">> >>,
      << <<"o","k">>, <<"t","o"," ","B","L","K">> >> }

NetTimeout == [name |-> "i/o timeout", timeout |-> TRUE]

NetRefused == [name |-> "connection refused", timeout |-> FALSE]

\* The dial under a context that is already done fails with the context's
\* error; a deadline error is a net timeout, a cancellation is not.
DialError(cerr) ==
    [name |-> cerr, timeout |-> (cerr = "context.DeadlineExceeded")]

\* Mutant of queryDNSError: any error of the context counts as a timeout.
queryDNSErrorAnyContext(cerr, te) ==
    IF cerr # "nil"
    THEN Err("ErrDNSTimeout", <<cerr>>)
    ELSE IF te.timeout
         THEN Err("ErrDNSTimeout", <<te.name>>)
         ELSE Err(te.name, <<>>)

\* queryDNS's classification of a failed exchange (dns.go, err != nil).
queryDNSError(cerr, te) ==
    IF cerr = "context.DeadlineExceeded"
    THEN Err("ErrDNSTimeout", <<cerr>>)
    ELSE IF te.timeout
         THEN Err("ErrDNSTimeout", <<te.name>>)
         ELSE Err(te.name, <<>>)

containsKeyword(msg, keyword) ==
    \E k \in DOMAIN msg : Contains(ToLower(msg[k]), ToLower(keyword))

\* Mutant of cacheKey: the keyword is left out of the key.
cacheKeyNoKeyword(domain, srv, qtype) ==
    domain \o <<":">> \o srv.Address \o <<":">> \o Itoa(qtype)

\* fmt.Sprintf("%s:%s:%s:%d", domain, srv.Address, srv.Keyword, qtype)
cacheKey(domain, srv, qtype) ==
    domain \o <<":">> \o srv.Address \o <<":">> \o srv.Keyword \o <<":">>
        \o Itoa(qtype)

\* ------------------------------------------------------------- inputs
\* Domains handed to Check and CheckOne: one that is valid once normalised,
\* one that is valid as written, and an invalid one.
DomainInputs ==
    { <<" ","A","b",".","i","d">>,
      <<"c","d",".","i","d">>,
      <<"-","b",".","i","d">> }

\* normalizeDomain and IsValidDomain on the domains the calls are made with,
\* tabulated.
Normalized == [x \in DomainInputs |-> normalizeDomain(x)]

Valid == [d \in Range(Normalized) |-> IsValidDomain(d)]

Server1 == DNSServer(<<"s","1">>, <<"b","l","k">>, <<"A">>)

Server2 == DNSServer(<<"s","2">>, <<"n","o","n","e">>, <<"t","x","t">>)

\* Resolver lists a Checker is constructed with (WithServers).
ServerLists == { <<>>, <<Server1>>, <<Server1, Server2>> }

\* The cache TTL, in clock ticks.
CacheTTL == 1

\* Sequences over S of length at most n.
SeqUpTo(S, n) == UNION {[1..k -> S] : k \in 0..n}

\* Process 0 is the caller of CheckOne; process i >= 1 is the goroutine that
\* Check starts for domains[i].
Caller == 0

Procs == 0..MaxDomains

\* ------------------------------------------------------------- state
VARIABLES
    servers,      \* c.servers
    maxRetries,   \* c.maxRetries
    concurrency,  \* c.concurrency
    cacheOn,      \* c.cache != nil
    cacheOpt,     \* the WithCache option New was given, if any
    panicOn,      \* normalised domains for whose keys the cache's Get panics
    reachable,    \* whether the DNS servers answer at all
    ctxErr,       \* ctx.Err(): "nil" until the context is done
    now,          \* time.Now()
    entries,      \* memoryCache.entries: key -> [result, expiresAt]
    domains,      \* the arguments of the Check call in progress
    results,      \* the results slice of the Check call
    sem,          \* number of tokens in the semaphore channel
    wg,           \* the WaitGroup counter
    dpc,          \* where the Check call is
    di,           \* the loop index i of Check
    retErr,       \* the error Check returned
    atCall,       \* history: ctx.Err() when Check was called
    atCancel,     \* history: where Check was when the context was cancelled
    proc,         \* per process: position and locals of checkSingle
    calls,        \* CheckOne calls made so far
    oneRet,       \* the Result the last CheckOne call returned
    oneErr,       \* the error the last CheckOne call returned
    oneDom,       \* the domain argument of the last CheckOne call
    prev,         \* history: the CheckOne call before the last one
    client,       \* per direct user of the cache: where its Get is
    seen,         \* history: what each direct user's last Get returned
    written,      \* history: key -> the last Set since the last Flush
    flushed,      \* history: keys a Flush discarded, not Set again since
    keyed,        \* history: per cached key, what checkSingle stored it for
    stale,        \* history: the checks and keys the last FlushCache call met
    health,       \* the DNSStatus call: position, statuses, goroutines
    opts,         \* New: the options applied so far, whether it has returned
    heap,         \* the backing arrays c.servers can share with other slices
    scap,         \* cap(c.servers)
    mu,           \* c.mu: the writer holding it, 0 when free
    wr,           \* per writer: position and arguments of its call
    storing,      \* the slice header of c.servers being overwritten, if any
    rd,           \* the caller of Servers(): position and locals
    got,          \* history: what the last Servers() call returned
    committed,    \* history: the list at New and after each writer's call
    writers,      \* history: who wrote each index of results, in order
    visited,      \* history: servers the caller's checkSingle call consulted
    log,          \* history: events of the caller's last queryWithRetries call
    qret          \* history: what that call returned

vars == <<servers, maxRetries, concurrency, cacheOn, cacheOpt, panicOn,
          reachable,
          ctxErr, now, entries, domains, results, sem, wg, dpc, di, retErr, atCall, proc,
          calls, oneRet, oneErr, oneDom, prev, client, seen, written, scap, mu,
          wr, storing, rd, got, committed, writers, visited, log, qret,
          atCancel, flushed, keyed, stale, health, opts, heap>>

config ==
    <<servers, maxRetries, concurrency, cacheOn, cacheOpt, panicOn, reachable,
      opts, heap>>

dispatcher == <<domains, results, sem, wg, dpc, di, retErr, atCall, writers>>

caller == <<calls, oneRet, oneErr, oneDom, prev>>

history == <<visited, log, qret>>

mc == <<client, seen, written, flushed, keyed, stale>>

reg == <<scap, mu, wr, storing, rd, got, committed>>

settings ==
    <<maxRetries, concurrency, cacheOn, cacheOpt, panicOn, reachable, opts,
      heap>>

options ==
    <<maxRetries, concurrency, cacheOn, cacheOpt, panicOn, reachable, opts>>

\* Goroutines calling memoryCache.Get, Set and Flush directly.
Clients == 1..MaxClients

\* A direct user of the cache that is not inside Get.
NoGet == [pc |-> "idle", key |-> <<>>, exp |-> -1, fresh |-> FALSE]

\* History: no Get has returned yet.
NoSeen ==
    [key |-> <<>>, ok |-> FALSE, res |-> ZeroResult, at |-> -1, exp |-> -1,
     w |-> -1, wres |-> ZeroResult, del |-> FALSE, gone |-> FALSE,
     raced |-> FALSE, fl |-> FALSE]

\* Locals of a process that is not running checkSingle.
Idle(pc) ==
    [pc |-> pc, raw |-> <<>>, d |-> <<>>, s |-> 0, attempt |-> 0,
     lastErr |-> NoError, responded |-> FALSE, best |-> ZeroResult,
     ent |-> -1, ret |-> ZeroResult,
     n |-> 0, shared |-> FALSE, snap |-> <<>>, srv |-> ZeroServer,
     began |-> <<>>]

\* Locals of a process inside checkSingle's loop over the servers: the
\* domain, the slice being ranged over (its length n and its backing array:
\* the array c.servers still points to, or the contents snap of one it has
\* left), the index s and the copy srv of the current element.  began is
\* history: c.servers when the loop was entered.
Iter(l, pc) ==
    [Idle(pc) EXCEPT !.raw = l.raw, !.d = l.d, !.s = l.s, !.n = l.n,
                     !.shared = l.shared, !.snap = l.snap, !.srv = l.srv,
                     !.began = l.began]

\* ------------------------------------------------------ the server list
\* Goroutines calling SetServers and DeleteServers.
Writers == 1..MaxWriters

NoOp == [kind |-> "none", args |-> <<>>]

\* A writer that is not inside a call.
NoWrite == [pc |-> "idle", op |-> NoOp, i |-> 0, base |-> <<>>]

\* ServerStatus{Server, Online, Error} (types.go); the latency is left out.
ServerStatus(s, o, e) == [Server |-> s, Online |-> o, Error |-> e]

\* The zero ServerStatus of make([]ServerStatus, n).
ZeroStatus == ServerStatus(<<>>, FALSE, NoError)

\* History: no FlushCache call has been made.
NoFlush ==
    [made |-> FALSE, before |-> {}, pending |-> {}, old |-> {}, since |-> {},
     hit |-> {}]

\* No DNSStatus call has been made.  statuses is the slice the call makes, j
\* the index of its fill loop, running the goroutines it has started (index
\* and server handed to each); began is history, the list at the call.
NoStatus ==
    [pc |-> "idle", statuses |-> <<>>, j |-> 0, running |-> {},
     err |-> NoError, began |-> <<>>]

\* The caller of Servers() outside a call.
NoRead == [pc |-> "idle", m |-> 0]

\* History: no Servers() call has returned.
NoGot ==
    [n |-> 0, list |-> <<>>, partial |-> FALSE, alias |-> FALSE,
     ret |-> <<>>, mutated |-> FALSE]

\* No store to the slice header of c.servers is in progress.
NoStore == [on |-> FALSE, old |-> <<>>]

\* The record of a CheckOne call that was never made.
NoCall == [raw |-> <<>>, ret |-> ZeroResult, err |-> NoError, exp |-> -1]

\* New(opts...): the configuration is chosen, the cache is empty, nothing runs.
\* New is given no WithCache option, WithCache(nil), or WithCache of a cache
\* of the caller's whose Get panics for some keys; when the options leave
\* c.cache nil, New sets it to the built-in cache.
\* defaultServers: two resolvers.
defaultServers == <<Server1, Server2>>

\* The arrays a write through c.servers can reach: at names the one
\* c.servers points to (its own, the one of the slice given to WithServers,
\* or the one of defaultServers); given is the caller's slice, peer the list
\* of a second Checker made with the same options, defaults the package
\* list.
OwnArray ==
    [at |-> "own", given |-> <<>>, peer |-> <<>>, defaults |-> defaultServers]

\* c.servers[k] = server: the element is written to the array c.servers
\* points to and shows in every slice over that array that reaches it.
WriteElem(h, k, server) ==
    LET through(list) ==
            IF k <= Len(list) THEN [list EXCEPT ![k] = server] ELSE list
    IN  IF h.at = "given"
        THEN [h EXCEPT !.given = through(h.given), !.peer = through(h.peer)]
        ELSE IF h.at = "defaults"
             THEN [h EXCEPT !.defaults = through(h.defaults)]
             ELSE h

InitFields(retries, limits, made) ==
    /\ servers \in ServerLists
    /\ maxRetries \in 0..retries
    /\ concurrency \in limits
    /\ cacheOpt \in {"none", "nil", "custom"}
    /\ cacheOn = TRUE
    /\ panicOn \in {{}, {<<"a","b",".","i","d">>}}
    /\ (panicOn # {}) = (cacheOpt = "custom")
    /\ reachable \in BOOLEAN
    /\ ctxErr = "nil"
    /\ now = 0
    /\ entries = <<>>
    /\ domains = <<>>
    /\ results = <<>>
    /\ sem = 0
    /\ wg = 0
    /\ dpc = "idle"
    /\ di = 0
    /\ retErr = NoError
    /\ atCall = "nil"
    /\ atCancel = NoCancel
    /\ proc = [p \in Procs |-> Idle("idle")]
    /\ calls = made
    /\ oneRet = ZeroResult
    /\ oneErr = NoError
    /\ oneDom = <<>>
    /\ prev = NoCall
    /\ client = [p \in Clients |-> NoGet]
    /\ seen = [p \in Clients |-> NoSeen]
    /\ written = <<>>
    /\ flushed = {}
    /\ keyed = <<>>
    /\ stale = NoFlush
    /\ health = NoStatus
    /\ scap = Len(servers)
    /\ mu = 0
    /\ wr = [w \in Writers |-> NoWrite]
    /\ storing = NoStore
    /\ rd = NoRead
    /\ got = NoGot
    /\ committed = <<[list |-> servers, op |-> NoOp]>>
    /\ writers = <<>>
    /\ visited = <<>>
    /\ log = <<>>
    /\ qret = NotCalled

\* A Checker New has returned; the slice it was given, if any, is not
\* followed.
InitConfig(retries, limits, made) ==
    /\ InitFields(retries, limits, made)
    /\ opts = [applied |-> <<>>, ret |-> TRUE]
    /\ heap = OwnArray

\* A context is cancelled, or its deadline passes, at any moment.
Cancel ==
    /\ ctxErr = "nil"
    /\ ctxErr' \in {"context.Canceled", "context.DeadlineExceeded"}
    /\ atCancel' =
          [blocked |-> IF dpc = "acquire" /\ sem >= concurrency THEN di ELSE 0,
           done |-> {j \in DOMAIN writers : writers[j] # <<>>},
           wait |-> IF proc[Caller].pc = "backoff" THEN Len(log) ELSE 0,
           visit |-> Len(visited),
           call |-> calls]
    /\ UNCHANGED <<config, mc, reg, now, entries, dispatcher, proc, caller,
                   history, health>>

\* Time passes.  Only the time elapsed since an entry was stored is
\* observable (by memoryCache.Get), so the clock starts with the first entry.
Tick ==
    /\ now < MaxTime
    /\ entries # <<>>
    /\ now' = now + 1
    /\ UNCHANGED <<config, mc, reg, ctxErr, entries, dispatcher, proc, caller, history,
                   atCancel, health>>

\* ---------------------------------------------------- checkSingle, stepwise
N == Len(domains)

Local(p) == proc[p]

\* The loop variable srv: the copy of the element taken at the head of the
\* iteration.
Srv(l) == l.srv

\* Mutant of Key: the key is made from the domain as it was given, before
\* normalisation.
KeyOfRawDomain(l) == cacheKey(l.raw, Srv(l), parseQueryType(Srv(l).QueryType))

\* cacheKey of checkSingle: the key of domain and srv.
Key(l) == cacheKey(l.d, Srv(l), parseQueryType(Srv(l).QueryType))

\* The outcome of one step of queryWithRetries: the process's next locals and
\* what the call returned, if it did.
Step(l, r) == [l |-> l, r |-> r]

\* Mutant of Continue: only a blocked result ends the failover; after a clear
\* one the next server is consulted as well.
ContinueUnlessBlocked(l, r) ==
    IF r.err # NoError \/ (~r.res.Blocked /\ l.s + 1 <= l.n)
    THEN Iter(l, "range")
    ELSE [Iter(l, "set") EXCEPT !.ret = r.res]

\* checkSingle after queryWithRetries returned r: on an error it continues
\* the loop over the servers; otherwise it goes on to store and return the
\* result.
Continue(l, r) ==
    IF r.err # NoError
    THEN Iter(l, "range")
    ELSE [Iter(l, "set") EXCEPT !.ret = r.res]

Returned(l, r) == Step(Continue(l, r), r)

\* Mutant of LoopHead: the loop runs while attempt < maxRetries, one attempt
\* short.
LoopHeadOneShort(l) ==
    IF l.attempt >= maxRetries
    THEN Returned(l, IF l.responded THEN Ok(l.best) ELSE Failed(l.lastErr))
    ELSE IF l.attempt > 0 /\ l.lastErr # NoError
         THEN Step([l EXCEPT !.pc = "backoff"], Running)
         ELSE Step([l EXCEPT !.pc = "query"], Running)

\* The head of the retry loop, attempt already incremented: leave the loop
\* with the remembered clear result or the last error, wait out a backoff,
\* or probe at once.
LoopHead(l) ==
    IF l.attempt > maxRetries
    THEN Returned(l, IF l.responded THEN Ok(l.best) ELSE Failed(l.lastErr))
    ELSE IF l.attempt > 0 /\ l.lastErr # NoError
         THEN Step([l EXCEPT !.pc = "backoff"], Running)
         ELSE Step([l EXCEPT !.pc = "query"], Running)

\* Mutant of AfterError: the first error is kept instead of the last.
AfterErrorKeepsFirst(l, e) ==
    LoopHead([l EXCEPT !.lastErr = IF l.lastErr = NoError THEN e ELSE l.lastErr,
                       !.attempt = l.attempt + 1])

\* The iteration of the retry loop in which queryDNS failed with e.
AfterError(l, e) ==
    LoopHead([l EXCEPT !.lastErr = e, !.attempt = l.attempt + 1])

\* Mutant of AfterResponse: a blocking response is remembered as the best
\* result and the remaining attempts are still made.
AfterResponseKeepsProbing(l, resp) ==
    LoopHead([l EXCEPT
        !.best = IF containsKeyword(resp, Srv(l).Keyword)
                 THEN Result(l.d, TRUE, Srv(l).Address, NoError)
                 ELSE IF l.responded THEN l.best
                 ELSE Result(l.d, FALSE, Srv(l).Address, NoError),
        !.responded = TRUE,
        !.attempt = l.attempt + 1])

\* The iteration of the retry loop in which queryDNS answered resp.
AfterResponse(l, resp) ==
    IF containsKeyword(resp, Srv(l).Keyword)
    THEN Returned(l, Ok(Result(l.d, TRUE, Srv(l).Address, NoError)))
    ELSE LoopHead([l EXCEPT
            !.best = IF l.responded THEN l.best
                     ELSE Result(l.d, FALSE, Srv(l).Address, NoError),
            !.responded = TRUE,
            !.attempt = l.attempt + 1])

\* The backoff select took the ctx.Done() case.
BackoffCancelled(l) == Returned(l, Failed(Err(ctxErr, <<>>)))

\* Events of the log.
Event(ev, l, e, resp) ==
    [ev |-> ev, s |-> l.s, attempt |-> l.attempt, err |-> e, resp |-> resp]

\* The caller's history: events are appended, the return value recorded, and
\* the consulted server marked with the outcome of the call.
Track(p, st, events) ==
    IF p = Caller
    THEN /\ visited' = IF st.r.state \in {"ok", "err"}
                       THEN [visited EXCEPT ![Len(visited)].out = st.r.state]
                       ELSE visited
         /\ log' = log \o events
                  \o IF st.l.pc = "backoff"
                     THEN <<Event("backoff", st.l, NoError, <<>>)>>
                     ELSE <<>>
         /\ qret' = st.r
    ELSE UNCHANGED history

\* A cache miss (or no cache): queryWithRetries is called; its loop starts
\* with attempt 0, no error and no response.
StartQuery(l) ==
    [l EXCEPT !.pc = "query", !.ent = -1, !.attempt = 0, !.lastErr = NoError,
              !.responded = FALSE, !.best = ZeroResult]

\* ------------------------------------------------------------ memoryCache
\* Mutant of Expired: an entry counts as expired already at its expiry
\* instant (!Before instead of After).
ExpiredAtExpiry(e) == now >= e.expiresAt

\* Mutant of Expired: the expiry instant is never looked at.
ExpiredNever(e) == FALSE

\* time.Now().After(entry.expiresAt)
Expired(e) == now > e.expiresAt

\* Mutant of Deleted: the expired entry's key is deleted without checking
\* that the entry is still the one that was read.
DeletedUnchecked(k, exp) == [x \in DOMAIN entries \ {k} |-> entries[x]]

\* Get's delete under the write lock: the entry is removed only if the key
\* still holds an entry with the expiry that was read.
Deleted(k, exp) ==
    IF k \in DOMAIN entries /\ entries[k].expiresAt = exp
    THEN [x \in DOMAIN entries \ {k} |-> entries[x]]
    ELSE entries

\* Set(key, result): the entry expires one TTL from now.
Stored(k, r) ==
    [x \in DOMAIN entries \cup {k} |->
        IF x = k THEN [result |-> r, expiresAt |-> now + CacheTTL]
        ELSE entries[x]]

\* What an unsynchronised read of the slice header c.servers can yield, as
\* the length and the backing array: the header as it is; or, while a
\* writer is storing a new header (pointer and length are separate words),
\* the old header, the old pointer with the new length, or the new pointer
\* with the old length.
HeaderReads ==
    {[n |-> Len(servers), shared |-> TRUE, snap |-> <<>>]}
    \cup IF storing.on
         THEN {[n |-> Len(storing.old), shared |-> FALSE, snap |-> storing.old],
               [n |-> Len(servers), shared |-> FALSE, snap |-> storing.old],
               [n |-> Len(storing.old), shared |-> TRUE, snap |-> <<>>]}
         ELSE {}

\* What the read of element i of the ranged slice can yield.  The loop does
\* no bounds check: past the end of the array's elements it reads zeroed
\* spare capacity, and past the array (a torn header) whatever lies there,
\* or it faults; under a nil pointer it can only fault.
Elem(l, i) ==
    LET arr == IF l.shared THEN servers ELSE l.snap
    IN  IF i <= Len(arr) THEN {[ok |-> TRUE, srv |-> arr[i]]}
        ELSE IF l.shared /\ i <= scap THEN {[ok |-> TRUE, srv |-> ZeroServer]}
        ELSE IF l.shared /\ scap = 0 THEN {[ok |-> FALSE, srv |-> ZeroServer]}
        ELSE {[ok |-> FALSE, srv |-> ZeroServer],
              [ok |-> TRUE, srv |-> ZeroServer]}

\* Mutant of Start: the domain is normalised but not validated.
StartUnvalidated(p) ==
    /\ Local(p).pc = "start"
    /\ LET l == Local(p)
           d == Normalized[l.raw]
       IN  \E h \in HeaderReads :
               proc' = [proc EXCEPT ![p] =
                  [l EXCEPT !.pc = "range", !.d = d, !.s = 0, !.n = h.n,
                            !.shared = h.shared, !.snap = h.snap,
                            !.began = servers]]
    /\ UNCHANGED <<config, mc, reg, ctxErr, now, entries, dispatcher, caller,
                   history, atCancel, health>>

\* checkSingle's entry: normalise and validate the domain, then evaluate the
\* range expression c.servers.
Start(p) ==
    /\ Local(p).pc = "start"
    /\ LET l == Local(p)
           d == Normalized[l.raw]
       IN  IF ~Valid[d]
           THEN proc' = [proc EXCEPT ![p] =
                   [l EXCEPT !.pc = "write",
                             !.ret = Result(d, FALSE, <<>>,
                                            Err("ErrInvalidDomain", d))]]
           ELSE \E h \in HeaderReads :
                   proc' = [proc EXCEPT ![p] =
                      [l EXCEPT !.pc = "range", !.d = d, !.s = 0, !.n = h.n,
                                !.shared = h.shared, !.snap = h.snap,
                                !.began = servers]]
    /\ UNCHANGED <<config, mc, reg, ctxErr, now, entries, dispatcher, caller, history,
                   atCancel, health>>

\* A panic inside checkSingle: Check's goroutine recovers it; CheckOne has no
\* recover, so it reaches CheckOne's caller.
Panicked(p, l) ==
    IF p = Caller THEN Idle("panicked") ELSE [Idle("recover") EXCEPT !.raw = l.raw]

\* The head of the loop over the servers: after the last element checkSingle
\* returns ErrAllDNSFailed; otherwise the next element is copied into srv.
RangeNext(p) ==
    /\ Local(p).pc = "range"
    /\ LET l == Local(p)
           i == l.s + 1
       IN  IF i > l.n
           THEN proc' = [proc EXCEPT ![p] =
                   [Idle("write") EXCEPT
                      !.raw = l.raw,
                      !.ret = Result(l.d, FALSE, <<>>,
                                     Err("ErrAllDNSFailed", <<>>))]]
           ELSE \E e \in Elem(l, i) :
                   proc' = [proc EXCEPT ![p] =
                      IF e.ok
                      THEN [Iter(l, "get") EXCEPT !.s = i, !.srv = e.srv]
                      ELSE Panicked(p, l)]
    /\ UNCHANGED <<config, mc, reg, ctxErr, now, entries, dispatcher, caller, history,
                   atCancel, health>>

\* One iteration of the server loop up to the cache lookup: c.cache.Get(key),
\* memoryCache.Get's read of the entry under the read lock.
Get(p) ==
    /\ Local(p).pc = "get"
    /\ LET l == Local(p)
           l2 == IF ~cacheOn
                 THEN StartQuery(l)
                 ELSE IF l.d \in panicOn
                 THEN Panicked(p, l)
                 ELSE IF Key(l) \notin DOMAIN entries
                 THEN StartQuery(l)
                 ELSE IF Expired(entries[Key(l)])
                 THEN [l EXCEPT !.pc = "getDel",
                                !.ent = entries[Key(l)].expiresAt]
                 ELSE [Idle("write") EXCEPT
                         !.raw = l.raw, !.ret = entries[Key(l)].result]
       IN  /\ proc' = [proc EXCEPT ![p] = l2]
           /\ IF p = Caller
              THEN /\ visited' = Append(visited,
                        [s |-> l.s,
                         out |-> IF l2.pc = "write" THEN "hit" ELSE "pending"])
                   /\ log' = <<>>
                   /\ qret' = IF l2.pc = "query" THEN Running ELSE NotCalled
              ELSE UNCHANGED history
           /\ stale' = IF stale.made /\ l2.pc = "write"
                       THEN [stale EXCEPT !.hit = @ \cup {<<p, Key(l)>>}]
                       ELSE stale
    /\ UNCHANGED <<config, client, seen, written, flushed, keyed, reg, ctxErr,
                   now, entries, dispatcher, caller, atCancel, health>>

\* memoryCache.Get found the entry expired: under the write lock it deletes
\* the entry if it is still the one it read, and reports a miss.
GetDel(p) ==
    /\ Local(p).pc = "getDel"
    /\ LET l == Local(p)
           k == Key(l)
       IN  /\ entries' = Deleted(k, l.ent)
           /\ proc' = [proc EXCEPT ![p] = StartQuery(l)]
           /\ IF p = Caller
              THEN qret' = Running /\ UNCHANGED <<visited, log>>
              ELSE UNCHANGED history
    /\ UNCHANGED <<config, mc, reg, ctxErr, now, dispatcher, caller, atCancel, health>>

\* time.Duration is an int64: Width bits in two's complement, held as
\* digits of base Radix, digit 0 the lowest.
Width == 64

Radix == 256

Digit == 0..(Width \div 8 - 1)

\* The int64 of a small natural number.
Int64(n) == [i \in Digit |-> IF i < 4 THEN (n \div Radix^i) % Radix ELSE 0]

\* 1 << uint(k) on an int64: the one is shifted out when k >= Width.
Shl(k) == [i \in Digit |-> IF i = k \div 8 THEN 2^(k % 8) ELSE 0]

RECURSIVE Column(_, _, _, _)
\* The sum of the partial products x[j] * y[i - j] for j in 0..n.
Column(x, y, i, n) ==
    IF n < 0 THEN 0 ELSE x[n] * y[i - n] + Column(x, y, i, n - 1)

RECURSIVE Product(_, _, _, _)
\* The digits of x * y from digit i on, given the carry into digit i.
Product(x, y, i, carry) ==
    IF i = Width \div 8 THEN <<>>
    ELSE LET t == Column(x, y, i, i) + carry
         IN  <<t % Radix>> \o Product(x, y, i + 1, t \div Radix)

\* x * y on int64: the product wraps around modulo 2^Width.
Mul(x, y) ==
    LET p == Product(x, y, 0, 0)
    IN  [i \in Digit |-> p[i + 1]]

Negative(x) == x[Width \div 8 - 1] >= Radix \div 2

\* x < y on int64.
Less(x, y) ==
    IF Negative(x) # Negative(y)
    THEN Negative(x)
    ELSE \E i \in Digit : /\ x[i] < y[i]
                          /\ \A j \in Digit : j > i => x[j] = y[j]

Min(x, y) == IF Less(y, x) THEN y ELSE x

\* time.Second, in nanoseconds.
Second == Int64(1000000000)

\* The duration handed to time.After before the given attempt.
backoff(attempt) ==
    Min(Mul(Shl(attempt - 1), Second), Mul(Int64(30), Second))

\* The backoffs of the attempts that can be made.
Backoffs == [a \in 1..(MaxManyRetries + 1) |-> backoff(a)]

\* A timer of a duration that is zero or negative has fired when the select
\* looks at it.
FiresAtOnce(attempt) ==
    \/ Negative(Backoffs[attempt])
    \/ Backoffs[attempt] = Int64(0)

\* Mutant of Backoff: the wait is a plain time.Sleep, the context is not
\* looked at.
BackoffIgnoresDone(p) ==
    /\ Local(p).pc = "backoff"
    /\ proc' = [proc EXCEPT ![p].pc = "query"]
    /\ UNCHANGED <<config, mc, reg, ctxErr, now, entries, dispatcher, caller,
                   history, atCancel, health>>

\* The backoff select of queryWithRetries.  The timer is created by the
\* select itself; while it runs, a context that is done when the select is
\* reached, or becomes done during the wait, is the case that wakes the
\* select.  A timer that fires at once is ready together with a done
\* context, and the select takes either case.
Backoff(p) ==
    /\ Local(p).pc = "backoff"
    /\ \/ /\ ctxErr # "nil"
          /\ LET st == BackoffCancelled(Local(p))
             IN  /\ proc' = [proc EXCEPT ![p] = st.l]
                 /\ Track(p, st, <<>>)
       \/ /\ ctxErr = "nil" \/ FiresAtOnce(Local(p).attempt)
          /\ proc' = [proc EXCEPT ![p].pc = "query"]
          /\ UNCHANGED history
    /\ UNCHANGED <<config, mc, reg, ctxErr, now, entries, dispatcher, caller,
                   atCancel, health>>

\* queryDNS is called: under a context that is already done the dial fails
\* at once; otherwise the exchange is in flight.
Query(p) ==
    /\ Local(p).pc = "query"
    /\ IF ctxErr # "nil"
       THEN LET e  == queryDNSError(ctxErr, DialError(ctxErr))
                st == AfterError(Local(p), e)
            IN  /\ proc' = [proc EXCEPT ![p] = st.l]
                /\ Track(p, st, <<Event("err", Local(p), e, <<>>)>>)
       ELSE /\ proc' = [proc EXCEPT ![p].pc = "exchange"]
            /\ UNCHANGED history
    /\ UNCHANGED <<config, mc, reg, ctxErr, now, entries, dispatcher, caller,
                   atCancel, health>>

\* The exchange in flight fails with one of the transport errors in errs.
ExchangeFails(p, errs) ==
    /\ Local(p).pc = "exchange"
    /\ \E te \in errs :
          LET e  == queryDNSError(ctxErr, te)
              st == AfterError(Local(p), e)
          IN  /\ proc' = [proc EXCEPT ![p] = st.l]
              /\ Track(p, st, <<Event("err", Local(p), e, <<>>)>>)
    /\ UNCHANGED <<config, mc, reg, ctxErr, now, entries, dispatcher, caller,
                   atCancel, health>>

\* The exchange in flight fails.
ExchangeError(p) == ExchangeFails(p, {NetTimeout, NetRefused})

\* The exchange in flight is answered, by a server that can be reached.
ExchangeResponse(p) ==
    /\ Local(p).pc = "exchange"
    /\ reachable
    /\ \E resp \in Responses :
          LET st == AfterResponse(Local(p), resp)
          IN  /\ proc' = [proc EXCEPT ![p] = st.l]
              /\ Track(p, st, <<Event("resp", Local(p), NoError, resp)>>)
    /\ UNCHANGED <<config, mc, reg, ctxErr, now, entries, dispatcher, caller,
                   atCancel, health>>

\* History: key k now holds what was stored for domain d under server srv;
\* only the keys the cache holds are kept.
KeyedFor(k, d, srv) ==
    [x \in (DOMAIN keyed \cap DOMAIN entries) \cup {k} |->
        IF x = k THEN [d |-> d, srv |-> srv] ELSE keyed[x]]

\* History: process p stores under key k. Its outcome was probed before the
\* last FlushCache call exactly when that call found p about to store.
StoredBy(p, k) ==
    [stale EXCEPT !.pending = @ \ {p},
                  !.old = IF p \in stale.pending THEN @ \cup {k} ELSE @ \ {k},
                  !.since = @ \cup {k}]

\* c.cache.Set(cacheKey, result), then checkSingle returns the result.
Set(p) ==
    /\ Local(p).pc = "set"
    /\ LET l == Local(p)
           k == Key(l)
       IN  /\ entries' = IF cacheOn THEN Stored(k, l.ret) ELSE entries
           /\ keyed' = IF cacheOn THEN KeyedFor(k, l.d, Srv(l)) ELSE keyed
           /\ stale' = IF cacheOn THEN StoredBy(p, k) ELSE stale
           /\ proc' = [proc EXCEPT ![p] =
                         [Idle("write") EXCEPT !.raw = l.raw, !.ret = l.ret]]
    /\ UNCHANGED <<config, client, seen, written, flushed, reg, ctxErr, now,
                   dispatcher, caller, history, atCancel, health>>

\* ------------------------------------------------------------- CheckOne
\* History: the expiry instant of the entry the cache holds for domain d
\* under the first server's key, -1 if it holds none.
FirstExpiry(d) ==
    IF servers = <<>> THEN -1
    ELSE LET k == cacheKey(d, servers[1], parseQueryType(servers[1].QueryType))
         IN  IF k \in DOMAIN entries THEN entries[k].expiresAt ELSE -1

\* CheckOne(ctx, domain): ErrNoDNSServers for an empty list, else checkSingle.
CheckOne ==
    /\ Local(Caller).pc = "idle"
    /\ calls < MaxCalls
    /\ calls' = calls + 1
    /\ prev' = IF calls = 0 THEN NoCall
               ELSE [raw |-> oneDom, ret |-> oneRet, err |-> oneErr,
                     exp |-> FirstExpiry(normalizeDomain(oneDom))]
    /\ \E d \in DomainInputs :
          /\ oneDom' = d
          /\ IF Len(servers) = 0
             THEN /\ oneRet' = ZeroResult
                  /\ oneErr' = Err("ErrNoDNSServers", <<>>)
                  /\ UNCHANGED proc
             ELSE /\ proc' = [proc EXCEPT ![Caller] =
                                [Idle("start") EXCEPT !.raw = d]]
                  /\ UNCHANGED <<oneRet, oneErr>>
    /\ visited' = <<>>
    /\ log' = <<>>
    /\ qret' = NotCalled
    /\ UNCHANGED <<config, mc, reg, ctxErr, now, entries, dispatcher, atCancel, health>>

\* checkSingle returned: CheckOne returns (result, nil).
OneReturn ==
    /\ Local(Caller).pc = "write"
    /\ oneRet' = Local(Caller).ret
    /\ oneErr' = NoError
    /\ proc' = [proc EXCEPT ![Caller] = Idle("idle")]
    /\ UNCHANGED <<config, mc, reg, ctxErr, now, entries, dispatcher, calls, oneDom,
                   prev, history, atCancel, health>>

\* ---------------------------------------------------------------- Check
\* Check(ctx, domains...): ErrNoDNSServers for an empty list; else the result
\* slice, the WaitGroup and the semaphore are made and the loop starts.
Check ==
    /\ dpc = "idle"
    /\ atCall' = ctxErr
    /\ \E ds \in SeqUpTo(DomainInputs, MaxDomains) :
          /\ domains' = ds
          /\ IF Len(servers) = 0
             THEN /\ dpc' = "returned"
                  /\ retErr' = Err("ErrNoDNSServers", <<>>)
                  /\ UNCHANGED <<results, writers, di>>
             ELSE /\ results' = [i \in 1..Len(ds) |-> ZeroResult]
                  /\ writers' = [i \in 1..Len(ds) |-> <<>>]
                  /\ di' = 1
                  /\ dpc' = IF Len(ds) = 0 THEN "wait" ELSE "select"
                  /\ UNCHANGED retErr
    /\ UNCHANGED <<config, mc, reg, ctxErr, now, entries, sem, wg, proc, caller,
                   history, atCancel, health>>

\* Mutant of Select: the cancellation fill starts at index 0, not at i.
SelectFillsAll ==
    /\ dpc = "select"
    /\ IF ctxErr # "nil"
       THEN /\ results' = [j \in 1..N |->
                             Result(domains[j], FALSE, <<>>, Err(ctxErr, <<>>))]
            /\ writers' = [j \in 1..N |-> Append(writers[j], "cancel")]
            /\ dpc' = "wait"
            /\ UNCHANGED wg
       ELSE /\ wg' = wg + 1
            /\ dpc' = "acquire"
            /\ UNCHANGED <<results, writers>>
    /\ UNCHANGED <<config, mc, reg, ctxErr, now, entries, domains, sem, di, retErr,
                   proc, caller, history, atCall, atCancel, health>>

\* Mutant of Select: on cancellation Check returns at once instead of
\* breaking out of the loop to wg.Wait().
SelectReturnsAtOnce ==
    /\ dpc = "select"
    /\ IF ctxErr # "nil"
       THEN /\ results' = [j \in 1..N |->
                             IF j >= di
                             THEN Result(domains[j], FALSE, <<>>, Err(ctxErr, <<>>))
                             ELSE results[j]]
            /\ writers' = [j \in 1..N |->
                             IF j >= di THEN Append(writers[j], "cancel")
                             ELSE writers[j]]
            /\ dpc' = "returned"
            /\ retErr' = Err(ctxErr, <<>>)
            /\ UNCHANGED wg
       ELSE /\ wg' = wg + 1
            /\ dpc' = "acquire"
            /\ UNCHANGED <<results, writers, retErr>>
    /\ UNCHANGED <<config, mc, reg, ctxErr, now, entries, domains, sem, di,
                   proc, caller, history, atCall, atCancel, health>>

\* The head of Check's loop body: the select on ctx.Done().  When the context
\* is done the remaining results are filled with its error and the loop is
\* left; otherwise wg.Add(1).
Select ==
    /\ dpc = "select"
    /\ IF ctxErr # "nil"
       THEN /\ results' = [j \in 1..N |->
                             IF j >= di
                             THEN Result(domains[j], FALSE, <<>>, Err(ctxErr, <<>>))
                             ELSE results[j]]
            /\ writers' = [j \in 1..N |->
                             IF j >= di THEN Append(writers[j], "cancel")
                             ELSE writers[j]]
            /\ dpc' = "wait"
            /\ UNCHANGED wg
       ELSE /\ wg' = wg + 1
            /\ dpc' = "acquire"
            /\ UNCHANGED <<results, writers>>
    /\ UNCHANGED <<config, mc, reg, ctxErr, now, entries, domains, sem, di, retErr,
                   proc, caller, history, atCall, atCancel, health>>

\* Mutant of Acquire: the goroutine is started without waiting for a slot.
AcquireUnguarded ==
    /\ dpc = "acquire"
    /\ sem' = sem + 1
    /\ proc' = [proc EXCEPT ![di] = [Idle("start") EXCEPT !.raw = domains[di]]]
    /\ di' = di + 1
    /\ dpc' = IF di + 1 > N THEN "wait" ELSE "select"
    /\ UNCHANGED <<config, mc, reg, ctxErr, now, entries, domains, results, wg, retErr,
                   writers, caller, history, atCall, atCancel, health>>

\* sem <- struct{}{} blocks while the channel is full; then the goroutine for
\* (i, domain) is started and the loop goes on.
Acquire ==
    /\ dpc = "acquire"
    /\ sem < concurrency
    /\ sem' = sem + 1
    /\ proc' = [proc EXCEPT ![di] = [Idle("start") EXCEPT !.raw = domains[di]]]
    /\ di' = di + 1
    /\ dpc' = IF di + 1 > N THEN "wait" ELSE "select"
    /\ UNCHANGED <<config, mc, reg, ctxErr, now, entries, domains, results, wg, retErr,
                   writers, caller, history, atCall, atCancel, health>>

\* Mutant of Write: results are stored in completion order
\* (results = append(results, r)) instead of at the item's own index.
WriteInCompletionOrder(p) ==
    /\ p # Caller
    /\ Local(p).pc = "write"
    /\ LET idx == Cardinality({i \in 1..N : writers[i] # <<>>}) + 1
       IN  /\ results' = [results EXCEPT ![idx] = Local(p).ret]
           /\ writers' = [writers EXCEPT ![idx] = Append(@, "worker")]
    /\ proc' = [proc EXCEPT ![p] = Idle("release")]
    /\ UNCHANGED <<config, mc, reg, ctxErr, now, entries, domains, sem, wg, dpc, di,
                   retErr, caller, history, atCall, atCancel, health>>

\* results[idx] = c.checkSingle(ctx, d)
Write(p) ==
    /\ p # Caller
    /\ Local(p).pc = "write"
    /\ results' = [results EXCEPT ![p] = Local(p).ret]
    /\ writers' = [writers EXCEPT ![p] = Append(@, "worker")]
    /\ proc' = [proc EXCEPT ![p] = Idle("release")]
    /\ UNCHANGED <<config, mc, reg, ctxErr, now, entries, domains, sem, wg, dpc, di,
                   retErr, caller, history, atCall, atCancel, health>>

\* Mutant of Recover: the panic is swallowed and the item's result is left
\* as it was.
RecoverKeepsZero(p) ==
    /\ p # Caller
    /\ Local(p).pc = "recover"
    /\ writers' = [writers EXCEPT ![p] = Append(@, "panic")]
    /\ proc' = [proc EXCEPT ![p] = Idle("release")]
    /\ UNCHANGED <<config, mc, reg, ctxErr, now, entries, domains, results, sem, wg, dpc,
                   di, retErr, caller, history, atCall, atCancel, health>>

\* The deferred recover(): the panic becomes the item's result.
Recover(p) ==
    /\ p # Caller
    /\ Local(p).pc = "recover"
    /\ results' = [results EXCEPT ![p] =
                     Result(Local(p).raw, FALSE, <<>>,
                            Err("ErrInternalPanic", <<"cache panic">>))]
    /\ writers' = [writers EXCEPT ![p] = Append(@, "panic")]
    /\ proc' = [proc EXCEPT ![p] = Idle("release")]
    /\ UNCHANGED <<config, mc, reg, ctxErr, now, entries, domains, sem, wg, dpc, di,
                   retErr, caller, history, atCall, atCancel, health>>

\* Mutant of Release: the worker goes on without giving its slot back.
ReleaseKeepsSlot(p) ==
    /\ Local(p).pc = "release"
    /\ proc' = [proc EXCEPT ![p] = Idle("wgdone")]
    /\ UNCHANGED <<config, mc, reg, ctxErr, now, entries, dispatcher, caller,
                   history, atCancel, health>>

\* The deferred <-sem.
Release(p) ==
    /\ Local(p).pc = "release"
    /\ sem' = sem - 1
    /\ proc' = [proc EXCEPT ![p] = Idle("wgdone")]
    /\ UNCHANGED <<config, mc, reg, ctxErr, now, entries, domains, results, wg, dpc, di,
                   retErr, writers, caller, history, atCall, atCancel, health>>

\* The deferred wg.Done(): the goroutine ends.
WgDone(p) ==
    /\ Local(p).pc = "wgdone"
    /\ wg' = wg - 1
    /\ proc' = [proc EXCEPT ![p] = Idle("exited")]
    /\ UNCHANGED <<config, mc, reg, ctxErr, now, entries, domains, results, sem, dpc, di,
                   retErr, writers, caller, history, atCall, atCancel, health>>

\* Mutant of Wait: Check returns a nil error whatever the context says.
WaitReturnsNil ==
    /\ dpc = "wait"
    /\ wg = 0
    /\ dpc' = "returned"
    /\ retErr' = NoError
    /\ UNCHANGED <<config, mc, reg, ctxErr, now, entries, domains, results, sem, wg, di,
                   writers, proc, caller, history, atCall, atCancel, health>>

\* wg.Wait() returns when the counter is zero; Check returns the results and
\* the context's error, if any.
Wait ==
    /\ dpc = "wait"
    /\ wg = 0
    /\ dpc' = "returned"
    /\ retErr' = IF ctxErr # "nil" THEN Err(ctxErr, <<>>) ELSE NoError
    /\ UNCHANGED <<config, mc, reg, ctxErr, now, entries, domains, results, sem, wg, di,
                   writers, proc, caller, history, atCall, atCancel, health>>

\* ------------------------------------------------------- specifications
\* The steps of checkSingle, whoever runs it.
CheckSingle(p) ==
    \/ Start(p)
    \/ RangeNext(p)
    \/ Get(p)
    \/ GetDel(p)
    \/ Backoff(p)
    \/ Query(p)
    \/ ExchangeError(p)
    \/ ExchangeResponse(p)
    \/ Set(p)

Worker(p) ==
    \/ CheckSingle(p)
    \/ Write(p)
    \/ Recover(p)
    \/ Release(p)
    \/ WgDone(p)

\* One Check call with its workers.
Init == InitConfig(MaxRetriesCheck, 1..MaxConcurrency, 0)

Next ==
    \/ Check
    \/ Select
    \/ Acquire
    \/ Wait
    \/ \E p \in Procs \ {Caller} : Worker(p)
    \/ Cancel
    \/ Tick

Spec == Init /\ [][Next]_vars

\* The same under fair scheduling: the goroutine of Check and every worker
\* it started take their next step when they can, and an exchange in flight
\* is eventually answered or fails.  The context need never be cancelled.
Fairness ==
    /\ WF_vars(Select \/ Acquire \/ Wait)
    /\ \A p \in Procs \ {Caller} : WF_vars(Worker(p))

\* For the fair runs: checkers made without WithCache(nil) that have no
\* server, one server probed twice, or two unreachable servers probed once
\* each.
InitLive ==
    /\ Init
    /\ cacheOpt # "nil"
    /\ \/ <<Len(servers), maxRetries>> \in {<<0, 0>>, <<1, 1>>}
       \/ Len(servers) = 2 /\ maxRetries = 0 /\ ~reachable

SpecLive == InitLive /\ [][Next]_vars /\ Fairness

\* A sequence of CheckOne calls by one caller.
InitOne == InitConfig(MaxRetries, {defaultConcurrency}, 0)

NextOne ==
    \/ CheckOne
    \/ CheckSingle(Caller)
    \/ OneReturn
    \/ Cancel
    \/ Tick

SpecOne == InitOne /\ [][NextOne]_vars

\* ----------------------------------------------- SetServers, DeleteServers
\* Arguments of the calls: a replacement for each configured server, and two
\* servers with new addresses.
Server1b == DNSServer(Server1.Address, <<"n","e","w">>, <<"A">>)

Server2b == DNSServer(Server2.Address, <<"n","e","w">>, <<"A">>)

Server3 == DNSServer(<<"s","3">>, <<"b","l","k">>, <<"A">>)

Server4 == DNSServer(<<"s","4">>, <<"b","l","k">>, <<"A">>)

\* Writer w's SetServers call: no server, a server with an address of its
\* own, or a replacement for both configured servers.
SetArgs(w) ==
    { <<>>, <<IF w = 1 THEN Server3 ELSE Server4>>, <<Server1b, Server2b>> }

\* Writer w's DeleteServers call: no address, one configured address of its
\* own, or both.
DelArgs(w) ==
    { <<>>, <<IF w = 1 THEN Server1.Address ELSE Server2.Address>>,
      <<Server1.Address, Server2.Address>> }

\* The index of the first server of the list with the address.
Position(list, address) ==
    CHOOSE k \in DOMAIN list :
        /\ list[k].Address = address
        /\ \A j \in 1..(k - 1) : list[j].Address # address

\* Mutant of SetOne: the server is appended whether or not its address is
\* in the list.
SetOneAppends(list, server) == Append(list, server)

\* One iteration of SetServers' outer loop: the first server with the same
\* address is replaced, else the server is appended.
SetOne(list, server) ==
    IF \E k \in DOMAIN list : list[k].Address = server.Address
    THEN [list EXCEPT ![Position(list, server.Address)] = server]
    ELSE Append(list, server)

\* SetServers' loop over its arguments.
RECURSIVE SetAll(_, _)
SetAll(list, args) ==
    IF args = <<>> THEN list ELSE SetAll(SetOne(list, Head(args)), Tail(args))

\* Mutant of DeleteAll: only the first address given is looked for.
DeleteAllFirstOnly(list, addrs) ==
    SelectSeq(list, LAMBDA x : x.Address # addrs[1])

\* DeleteServers' filter: the servers whose address is not to be deleted.
DeleteAll(list, addrs) ==
    SelectSeq(list, LAMBDA x : x.Address \notin Range(addrs))

\* The capacity append gives a slice that has to grow by one element.
GrowCap(c) == IF c = 0 THEN 1 ELSE 2 * c

\* The capacity of a slice built from nil by m appends of one element.
RECURSIVE CapAfter(_)
CapAfter(m) ==
    IF m = 0 THEN 0
    ELSE LET c == CapAfter(m - 1) IN IF m - 1 < c THEN c ELSE GrowCap(c)

\* What a completed call makes of a list.
ApplyOp(list, op) ==
    IF op.kind = "set" THEN SetAll(list, op.args)
    ELSE IF op.kind = "delete" THEN DeleteAll(list, op.args)
    ELSE list

\* c.servers is pointed at another backing array: the loops ranging over
\* the old one keep it, with the contents it has now.
Detach ==
    [p \in Procs |->
        IF proc[p].shared
        THEN [proc[p] EXCEPT !.shared = FALSE, !.snap = servers]
        ELSE proc[p]]

\* SetServers(servers...): a call without servers returns at once.
SetServers(w) ==
    /\ wr[w].pc = "idle"
    /\ \E args \in SetArgs(w) :
          wr' = [wr EXCEPT ![w] =
                   IF args = <<>> THEN [NoWrite EXCEPT !.pc = "done"]
                   ELSE [NoWrite EXCEPT !.pc = "lock", !.i = 1,
                                        !.op = [kind |-> "set", args |-> args]]]
    /\ UNCHANGED <<config, mc, scap, mu, storing, rd, got, committed, ctxErr,
                   now, entries, dispatcher, proc, caller, history, atCancel, health>>

\* DeleteServers(addresses...): a call without addresses returns at once.
DeleteServers(w) ==
    /\ wr[w].pc = "idle"
    /\ \E args \in DelArgs(w) :
          wr' = [wr EXCEPT ![w] =
                   IF args = <<>> THEN [NoWrite EXCEPT !.pc = "done"]
                   ELSE [NoWrite EXCEPT !.pc = "lock", !.i = 1,
                                        !.op = [kind |-> "delete", args |-> args]]]
    /\ UNCHANGED <<config, mc, scap, mu, storing, rd, got, committed, ctxErr,
                   now, entries, dispatcher, proc, caller, history, atCancel, health>>

\* c.mu.Lock()
Lock(w) ==
    /\ wr[w].pc = "lock"
    /\ mu = 0
    /\ mu' = w
    /\ wr' = [wr EXCEPT ![w].pc = wr[w].op.kind, ![w].base = servers]
    /\ UNCHANGED <<config, mc, scap, storing, rd, got, committed, ctxErr, now,
                   entries, dispatcher, proc, caller, history, atCancel, health>>

\* One iteration of SetServers' outer loop, under the lock: the matching
\* element is overwritten in the backing array; a new server is appended, in
\* place while there is spare capacity, else into a larger array that
\* c.servers is then pointed at.
Update(w) ==
    /\ wr[w].pc = "set"
    /\ LET server == wr[w].op.args[wr[w].i]
           grows  == /\ \A k \in DOMAIN servers :
                           servers[k].Address # server.Address
                     /\ Len(servers) = scap
       IN  /\ servers' = SetOne(servers, server)
           /\ scap' = IF grows THEN GrowCap(scap) ELSE scap
           /\ heap' = IF grows THEN [heap EXCEPT !.at = "own"]
                      ELSE IF Len(servers') = Len(servers)
                           THEN WriteElem(heap, Position(servers, server.Address),
                                          server)
                           ELSE heap
           /\ proc' = IF grows THEN Detach ELSE proc
           /\ storing' = IF grows THEN [on |-> TRUE, old |-> servers]
                         ELSE NoStore
    /\ wr' = [wr EXCEPT ![w].i = @ + 1,
                        ![w].pc = IF wr[w].i = Len(wr[w].op.args)
                                  THEN "unlock" ELSE "set"]
    /\ UNCHANGED <<options, mc, mu, rd, got, committed, ctxErr, now, entries,
                   dispatcher, caller, history, atCancel, health>>

\* DeleteServers under the lock: the servers that stay are appended to a new
\* slice, which is assigned to c.servers.
Delete(w) ==
    /\ wr[w].pc = "delete"
    /\ servers' = DeleteAll(servers, wr[w].op.args)
    /\ scap' = CapAfter(Len(servers'))
    /\ heap' = [heap EXCEPT !.at = "own"]
    /\ proc' = Detach
    /\ storing' = [on |-> TRUE, old |-> servers]
    /\ wr' = [wr EXCEPT ![w].pc = "unlock"]
    /\ UNCHANGED <<options, mc, mu, rd, got, committed, ctxErr, now, entries,
                   dispatcher, caller, history, atCancel, health>>

\* The deferred c.mu.Unlock(): the call returns.
Unlock(w) ==
    /\ wr[w].pc = "unlock"
    /\ mu' = 0
    /\ storing' = NoStore
    /\ wr' = [wr EXCEPT ![w].pc = "done"]
    /\ committed' = Append(committed, [list |-> servers, op |-> wr[w].op])
    /\ UNCHANGED <<config, mc, scap, rd, got, ctxErr, now, entries,
                   dispatcher, proc, caller, history, atCancel, health>>

\* Servers(): make([]DNSServer, len(c.servers)).
ServersLen ==
    /\ rd.pc = "idle"
    /\ got.n < MaxReads
    /\ \E h \in HeaderReads : rd' = [pc |-> "copy", m |-> h.n]
    /\ UNCHANGED <<config, mc, scap, mu, wr, storing, got, committed, ctxErr,
                   now, entries, dispatcher, proc, caller, history, atCancel, health>>

\* History: list is c.servers with some, but not all, of the updates of the
\* SetServers call in progress applied, and differs from the list before the
\* call and from the list after it.
Partial(list) ==
    \E w \in Writers :
        /\ mu = w
        /\ wr[w].op.kind = "set"
        /\ list # wr[w].base
        /\ list # SetAll(wr[w].base, wr[w].op.args)
        /\ \E j \in 1..(Len(wr[w].op.args) - 1) :
              list = SetAll(wr[w].base, SubSeq(wr[w].op.args, 1, j))

\* Mutant of ServersCopy: Servers() returns c.servers itself, a slice over
\* the array the Checker keeps.
ServersAliased ==
    /\ rd.pc = "copy"
    /\ got' = [n |-> got.n + 1, list |-> servers,
               partial |-> Partial(servers), alias |-> TRUE,
               ret |-> servers, mutated |-> FALSE]
    /\ rd' = NoRead
    /\ UNCHANGED <<config, mc, scap, mu, wr, storing, committed, ctxErr, now,
                   entries, dispatcher, proc, caller, history, atCancel, health>>

\* Servers(): copy(servers, c.servers) and the return of the copy.  The
\* slice returned has an array of its own (alias is FALSE); ret keeps, as
\* history, what it held when it was returned.
ServersCopy ==
    /\ rd.pc = "copy"
    /\ \E h \in HeaderReads :
          LET arr  == IF h.shared THEN servers ELSE h.snap
              list == [i \in 1..rd.m |->
                         IF i <= h.n /\ i <= Len(arr) THEN arr[i]
                         ELSE ZeroServer]
          IN  got' = [n |-> got.n + 1, list |-> list,
                      partial |-> Partial(list), alias |-> FALSE,
                      ret |-> list, mutated |-> FALSE]
    /\ rd' = NoRead
    /\ UNCHANGED <<config, mc, scap, mu, wr, storing, committed, ctxErr, now,
                   entries, dispatcher, proc, caller, history, atCancel, health>>

\* What the caller of Servers() writes into the slice it was returned.
Scribble == DNSServer(<<"x">>, <<"x">>, <<"A">>)

\* The caller of Servers() assigns to the first element of the slice it was
\* returned: the write goes to that slice's array, which is the Checker's
\* only if the slice aliases c.servers.
MutateReturned ==
    /\ rd.pc = "idle"
    /\ got.n > 0
    /\ ~got.mutated
    /\ got.list # <<>>
    /\ got' = [got EXCEPT !.mutated = TRUE, !.list = [@ EXCEPT ![1] = Scribble]]
    /\ servers' = IF got.alias /\ servers # <<>>
                  THEN [servers EXCEPT ![1] = Scribble]
                  ELSE servers
    /\ UNCHANGED <<settings, mc, scap, mu, wr, storing, rd, committed, ctxErr,
                   now, entries, dispatcher, proc, caller, history, atCancel, health>>

\* What the slice Servers() returned holds now: its own array, or, for a
\* slice that aliases c.servers, what that array holds.
ReturnedSlice ==
    IF got.alias
    THEN [i \in DOMAIN got.list |->
            IF got.mutated /\ i = 1 THEN Scribble
            ELSE IF i <= Len(servers) THEN servers[i] ELSE got.list[i]]
    ELSE got.list

\* The writers and a caller of Servers() on one Checker with two servers.
InitReg ==
    /\ InitConfig(0, {defaultConcurrency}, 0)
    /\ servers = <<Server1, Server2>>
    /\ cacheOpt = "none"
    /\ panicOn = {}
    /\ reachable

Writer(w) ==
    \/ SetServers(w)
    \/ DeleteServers(w)
    \/ Lock(w)
    \/ Update(w)
    \/ Delete(w)
    \/ Unlock(w)

NextReg ==
    \/ \E w \in Writers : Writer(w)
    \/ ServersLen
    \/ ServersCopy
    \/ MutateReturned

SpecReg == InitReg /\ [][NextReg]_vars

\* The writers and one CheckOne call on a Checker with two servers and no
\* retries, while no time passes (so that checkSingle neither backs off nor
\* finds an expired cache entry).
InitHot ==
    /\ InitConfig(0, {defaultConcurrency}, MaxCalls - 1)
    /\ servers = <<Server1, Server2>>
    /\ cacheOpt = "none"
    /\ panicOn = {}
    /\ reachable

NextHot ==
    \/ CheckOne
    \/ Start(Caller)
    \/ RangeNext(Caller)
    \/ Get(Caller)
    \/ Query(Caller)
    \/ ExchangeError(Caller)
    \/ ExchangeResponse(Caller)
    \/ Set(Caller)
    \/ OneReturn
    \/ \E w \in Writers : Writer(w)

SpecHot == InitHot /\ [][NextHot]_vars

\* ------------------------------------ a server re-registered between checks
\* Replacements for the first configured server: another keyword, another
\* record type, and a query type parseQueryType does not know.
Server1t == DNSServer(Server1.Address, Server1.Keyword, <<"T","X","T">>)

Server1p == DNSServer(Server1.Address, Server1.Keyword, <<"P","T","R">>)

RekeyArgs == { <<Server1b>>, <<Server1t>>, <<Server1p>> }

\* SetServers(server) with a replacement for the first server.
SetServersRekey(w) ==
    /\ wr[w].pc = "idle"
    /\ \E args \in RekeyArgs :
          wr' = [wr EXCEPT ![w] =
                   [NoWrite EXCEPT !.pc = "lock", !.i = 1,
                                   !.op = [kind |-> "set", args |-> args]]]
    /\ UNCHANGED <<config, mc, scap, mu, storing, rd, got, committed, ctxErr,
                   now, entries, dispatcher, proc, caller, history, atCancel, health>>

\* CheckOne calls on a Checker with a cache and no retries, and one
\* SetServers call that replaces the first server, while no time passes.
InitKey ==
    /\ InitConfig(0, {defaultConcurrency}, 0)
    /\ servers \in {<<Server1>>, <<Server1, Server2>>}
    /\ cacheOpt = "none"
    /\ panicOn = {}
    /\ reachable

NextKey ==
    \/ CheckOne
    \/ Start(Caller)
    \/ RangeNext(Caller)
    \/ Get(Caller)
    \/ Query(Caller)
    \/ ExchangeError(Caller)
    \/ ExchangeResponse(Caller)
    \/ Set(Caller)
    \/ OneReturn
    \/ SetServersRekey(1)
    \/ Lock(1)
    \/ Update(1)
    \/ Unlock(1)

SpecKey == InitKey /\ [][NextKey]_vars

\* ---------------------------------------------------------------- DNSStatus
\* DNSStatus(ctx): ErrNoDNSServers when len(c.servers) is 0.
DNSStatus ==
    /\ health.pc = "idle"
    /\ Local(Caller).pc = "idle"
    /\ \E h \in HeaderReads :
          health' = IF h.n = 0
                    THEN [NoStatus EXCEPT !.pc = "returned",
                                          !.err = Err("ErrNoDNSServers", <<>>),
                                          !.began = servers]
                    ELSE [NoStatus EXCEPT !.pc = "make", !.began = servers]
    /\ UNCHANGED <<config, mc, reg, ctxErr, now, entries, dispatcher, proc,
                   caller, history, atCancel>>

\* statuses := make([]ServerStatus, len(c.servers))
StatusMake ==
    /\ health.pc = "make"
    /\ \E h \in HeaderReads :
          health' = [health EXCEPT !.pc = "range",
                                   !.statuses = [i \in 1..h.n |-> ZeroStatus]]
    /\ UNCHANGED <<config, mc, reg, ctxErr, now, entries, dispatcher, proc,
                   caller, history, atCancel>>

\* for i, srv := range c.servers: the slice header is read once.
StatusRange ==
    /\ health.pc = "range"
    /\ \E h \in HeaderReads :
          proc' = [proc EXCEPT ![Caller] =
                     [Idle("status") EXCEPT !.n = h.n, !.shared = h.shared,
                                            !.snap = h.snap, !.s = 0]]
    /\ health' = [health EXCEPT !.pc = "loop"]
    /\ UNCHANGED <<config, mc, reg, ctxErr, now, entries, dispatcher, caller,
                   history, atCancel>>

\* One iteration of the loop: past the last element the loop ends; with the
\* context done the fill loop starts at this index; otherwise a semaphore
\* slot is taken and a goroutine started with the index and the server.
StatusNext ==
    /\ health.pc = "loop"
    /\ LET l == Local(Caller)
           i == l.s + 1
       IN  IF i > l.n
           THEN /\ health' = [health EXCEPT !.pc = "wait"]
                /\ UNCHANGED proc
           ELSE \E e \in Elem(l, i) :
                   IF ~e.ok
                   THEN /\ health' = [health EXCEPT !.pc = "panicked"]
                        /\ UNCHANGED proc
                   ELSE IF ctxErr # "nil"
                   THEN /\ health' = [health EXCEPT !.pc = "fill", !.j = i]
                        /\ UNCHANGED proc
                   ELSE /\ Cardinality(health.running) < concurrency
                        /\ health' = [health EXCEPT !.running =
                                         @ \cup {[idx |-> i, server |-> e.srv]}]
                        /\ proc' = [proc EXCEPT ![Caller].s = i]
    /\ UNCHANGED <<config, mc, reg, ctxErr, now, entries, dispatcher, caller,
                   history, atCancel>>

\* One iteration of the fill loop, for j < len(c.servers): statuses[j] gets
\* c.servers[j].Address and ctx.Err().  Both reads of c.servers are fresh;
\* an index past statuses or past c.servers panics in DNSStatus itself.
StatusFill ==
    /\ health.pc = "fill"
    /\ \E h \in HeaderReads, h2 \in HeaderReads :
          IF health.j > h.n
          THEN health' = [health EXCEPT !.pc = "wait"]
          ELSE IF health.j > h2.n \/ health.j > Len(health.statuses)
          THEN health' = [health EXCEPT !.pc = "panicked"]
          ELSE \E e \in Elem(h2, health.j) :
                  health' =
                     IF ~e.ok THEN [health EXCEPT !.pc = "panicked"]
                     ELSE [health EXCEPT
                             !.statuses[health.j] =
                                ServerStatus(e.srv.Address, FALSE,
                                             Err(ctxErr, <<>>)),
                             !.j = @ + 1]
    /\ UNCHANGED <<config, mc, reg, ctxErr, now, entries, dispatcher, proc,
                   caller, history, atCancel>>

\* What checkDNSHealth makes of a server: online, offline with the error of
\* the exchange (the context's once it is done), or a panic, which the
\* goroutine's recover turns into ErrInternalPanic.
HealthOf(server) ==
    (IF ctxErr = "nil" /\ reachable
     THEN {ServerStatus(server.Address, TRUE, NoError)}
     ELSE {})
    \cup {ServerStatus(server.Address, FALSE,
                       Err(IF ctxErr = "nil" THEN "network" ELSE ctxErr, <<>>)),
          ServerStatus(server.Address, FALSE, Err("ErrInternalPanic", <<>>))}

\* A goroutine of DNSStatus: statuses[idx] = checkDNSHealth(...), the
\* semaphore slot is released and wg.Done() called.  An index past statuses
\* panics; the deferred recover assigns to statuses[idx] again and panics
\* anew, which nothing recovers.
StatusProbe(g) ==
    /\ g \in health.running
    /\ health.pc \in {"loop", "fill", "wait"}
    /\ IF g.idx > Len(health.statuses)
       THEN health' = [health EXCEPT !.pc = "panicked"]
       ELSE \E st \in HealthOf(g.server) :
               health' = [health EXCEPT !.statuses[g.idx] = st,
                                        !.running = @ \ {g}]
    /\ UNCHANGED <<config, mc, reg, ctxErr, now, entries, dispatcher, proc,
                   caller, history, atCancel>>

\* wg.Wait() returns once every goroutine is done; DNSStatus returns the
\* statuses with ctx.Err().
StatusWait ==
    /\ health.pc = "wait"
    /\ health.running = {}
    /\ health' = [health EXCEPT !.pc = "returned", !.err = Err(ctxErr, <<>>)]
    /\ proc' = [proc EXCEPT ![Caller] = Idle("idle")]
    /\ UNCHANGED <<config, mc, reg, ctxErr, now, entries, dispatcher, caller,
                   history, atCancel>>

\* One DNSStatus call on a Checker with two servers, while the writers call
\* SetServers and DeleteServers and the context may be cancelled.
InitStatus ==
    /\ InitConfig(0, {defaultConcurrency}, MaxCalls)
    /\ servers = <<Server1, Server2>>
    /\ cacheOpt = "none"
    /\ panicOn = {}
    /\ reachable

NextStatus ==
    \/ DNSStatus
    \/ StatusMake
    \/ StatusRange
    \/ StatusNext
    \/ StatusFill
    \/ \E g \in health.running : StatusProbe(g)
    \/ StatusWait
    \/ Cancel
    \/ \E w \in Writers : Writer(w)

SpecStatus == InitStatus /\ [][NextStatus]_vars

\* ------------------------------------------- the memoryCache used directly
\* Keys and results the direct users work with: the keys checkSingle forms
\* for two domains under Server1, and that server's clear and blocked results.
CacheKeys ==
    {cacheKey(d, Server1, parseQueryType(Server1.QueryType)) :
        d \in {<<"a","b",".","i","d">>, <<"c","d",".","i","d">>}}

CacheResults ==
    {Result(<<"a","b",".","i","d">>, b, Server1.Address, NoError) :
        b \in BOOLEAN}

\* History: the last Set of key k since the last Flush, if any.
WrittenAt(k) == IF k \in DOMAIN written THEN written[k].at ELSE -1

WrittenResult(k) == IF k \in DOMAIN written THEN written[k].res ELSE ZeroResult

\* memoryCache.Get(key) up to its return or its decision to delete: the entry
\* is read under the read lock; an absent entry is a miss, an unexpired one
\* is returned, an expired one is a miss that Get goes on to delete.
CacheGet(p) ==
    /\ client[p].pc = "idle"
    /\ \E k \in CacheKeys :
          LET had == k \in DOMAIN entries
              hit == had /\ ~Expired(entries[k])
          IN  /\ client' = [client EXCEPT ![p] =
                    IF had /\ ~hit
                    THEN [pc |-> "delete", key |-> k,
                          exp |-> entries[k].expiresAt, fresh |-> FALSE]
                    ELSE NoGet]
              /\ seen' = [seen EXCEPT ![p] =
                    [NoSeen EXCEPT
                       !.key = k,
                       !.ok = hit,
                       !.res = IF hit THEN entries[k].result ELSE ZeroResult,
                       !.at = now,
                       !.exp = IF had THEN entries[k].expiresAt ELSE -1,
                       !.w = WrittenAt(k),
                       !.wres = WrittenResult(k),
                       !.fl = k \in flushed]]
    /\ UNCHANGED <<config, reg, written, flushed, keyed, stale, ctxErr, now, entries, dispatcher, proc,
                   caller, history, atCancel, health>>

\* History: the users whose Get is about to delete key k no longer face an
\* entry written after their read once k is removed.
Removed(k) ==
    [q \in Clients |->
        IF client[q].key = k THEN [client[q] EXCEPT !.fresh = FALSE]
        ELSE client[q]]

\* Get's lazy delete of the expired entry it read, under the write lock, and
\* its return of a miss.
CacheGetDelete(p) ==
    /\ client[p].pc = "delete"
    /\ LET k == client[p].key
       IN  /\ entries' = Deleted(k, client[p].exp)
           /\ client' = [IF k \in DOMAIN entries' THEN client ELSE Removed(k)
                            EXCEPT ![p] = NoGet]
           /\ seen' = [seen EXCEPT ![p] =
                         [@ EXCEPT !.del = TRUE,
                                   !.gone = k \notin DOMAIN entries',
                                   !.raced = client[p].fresh]]
    /\ UNCHANGED <<config, reg, written, flushed, keyed, stale, ctxErr, now, dispatcher, proc, caller,
                   history, atCancel, health>>

\* memoryCache.Set(key, val)
CacheSet(p) ==
    /\ client[p].pc = "idle"
    /\ \E k \in CacheKeys, r \in CacheResults :
          /\ entries' = Stored(k, r)
          /\ written' = [x \in DOMAIN written \cup {k} |->
                            IF x = k THEN [at |-> now, res |-> r]
                            ELSE written[x]]
          /\ client' = [q \in Clients |->
                           IF client[q].key = k
                           THEN [client[q] EXCEPT !.fresh = TRUE]
                           ELSE client[q]]
          /\ flushed' = flushed \ {k}
    /\ UNCHANGED <<config, reg, seen, keyed, stale, ctxErr, now, dispatcher, proc,
                   caller, history, atCancel, health>>

\* Mutant of Flush: only the entries that have expired are discarded.
FlushExpiredOnly ==
    /\ entries # <<>>
    /\ entries' = [k \in {x \in DOMAIN entries : ~Expired(entries[x])} |->
                      entries[k]]
    /\ written' = <<>>
    /\ flushed' = flushed \cup DOMAIN written
    /\ client' = [q \in Clients |-> [client[q] EXCEPT !.fresh = FALSE]]
    /\ UNCHANGED <<config, reg, seen, keyed, stale, ctxErr, now, dispatcher, proc,
                   caller, history, atCancel, health>>

\* memoryCache.Flush()
Flush ==
    /\ entries # <<>>
    /\ entries' = <<>>
    /\ written' = <<>>
    /\ flushed' = flushed \cup DOMAIN written
    /\ client' = [q \in Clients |-> [client[q] EXCEPT !.fresh = FALSE]]
    /\ UNCHANGED <<config, reg, seen, keyed, stale, ctxErr, now, dispatcher, proc,
                   caller, history, atCancel, health>>

\* Several goroutines using one memoryCache while time passes.
InitCache ==
    /\ InitConfig(0, {defaultConcurrency}, 0)
    /\ servers = <<Server1>>
    /\ cacheOpt = "none"
    /\ panicOn = {}
    /\ reachable

NextCache ==
    \/ \E p \in Clients : CacheGet(p) \/ CacheGetDelete(p) \/ CacheSet(p)
    \/ Flush
    \/ Tick

SpecCache == InitCache /\ [][NextCache]_vars

\* ==================================================================
\* Properties of Check (Spec)
\* ==================================================================
Workers == Procs \ {Caller}

\* Workers whose goroutine has been started and has not ended.
Alive == {p \in Workers : Local(p).pc \notin {"idle", "exited"}}

\* Workers that have been started and still hold their admission slot.
Admitted == {p \in Workers : Local(p).pc \notin {"idle", "wgdone", "exited"}}

CheckReturned == dpc = "returned" /\ Len(servers) # 0

\* C1 as claimed: the number of worker goroutines started and not yet
\* finished never exceeds the concurrency limit.
C1_AliveWithinLimit == Cardinality(Alive) <= concurrency

\* C1, amended: the number of worker goroutines that have been started and
\* have not yet released their admission slot never exceeds the concurrency
\* limit, and it is the number of tokens in the semaphore.
C1_AdmittedWithinLimit ==
    /\ Cardinality(Admitted) <= concurrency
    /\ Cardinality(Admitted) = sem

\* The semaphore is full and Check is blocked on it with an item to start.
C1_Witness ==
    /\ dpc = "acquire"
    /\ sem = concurrency
    /\ Cardinality(Admitted) = concurrency

\* C2: every index of the result slice is written at most once at any time,
\* and exactly once (by the worker's completion, its panic handler or the
\* cancellation fill) by the time Check returns.
C2_EachIndexWrittenOnce ==
    /\ \A i \in DOMAIN writers :
          /\ Len(writers[i]) <= 1
          /\ \A k \in DOMAIN writers[i] :
                writers[i][k] \in {"worker", "panic", "cancel"}
    /\ CheckReturned =>
          /\ DOMAIN writers = 1..N
          /\ \A i \in 1..N : Len(writers[i]) = 1

\* Check returned with one item written by a panic handler and another by
\* the cancellation fill.
C2_Witness ==
    /\ CheckReturned
    /\ \E i, j \in 1..N : writers[i] = <<"panic">> /\ writers[j] = <<"cancel">>

\* C3 as claimed: whenever Check returns, the slice it returns has exactly
\* len(domains) results and results[i] is for domains[i].
C3_AlwaysOnePerDomain ==
    dpc = "returned" =>
        /\ Len(results) = Len(domains)
        /\ \A i \in DOMAIN results :
              results[i].Domain \in {domains[i], normalizeDomain(domains[i])}

\* C3, amended: with a non-empty server list the result slice has one slot
\* per domain and, once written, slot i holds the outcome of domains[i]: the
\* normalised domains[i] when checkSingle returned it, domains[i] as given
\* when the panic handler or the cancellation fill wrote it; on return every
\* slot is written.
C3_ResultsMirrorInput ==
    dpc # "idle" /\ Len(servers) # 0 =>
        /\ Len(results) = N
        /\ \A i \in 1..N :
              /\ writers[i] = <<"worker">> =>
                    results[i].Domain = normalizeDomain(domains[i])
              /\ writers[i] = <<"panic">> =>
                    /\ results[i].Domain = domains[i]
                    /\ results[i].Error.is = "ErrInternalPanic"
              /\ writers[i] = <<"cancel">> =>
                    /\ results[i].Domain = domains[i]
                    /\ results[i].Error.is = ctxErr
              /\ dpc = "returned" => writers[i] # <<>>

\* A later item's worker has stored its result while an earlier item, for a
\* different domain, is still being checked.
C3_Witness ==
    /\ Len(writers) >= 2
    /\ normalizeDomain(domains[1]) # normalizeDomain(domains[2])
    /\ writers[2] = <<"worker">>
    /\ writers[1] = <<>>
    /\ Local(1).pc = "exchange"

\* C4: when Check has returned, every worker it started has ended: none is
\* still to write its result and none holds an admission slot.
C4_NoWorkerOutlivesCheck ==
    dpc = "returned" =>
        /\ \A p \in Workers : Local(p).pc \in {"idle", "exited"}
        /\ sem = 0
        /\ wg = 0

\* Check returned after a cancellation that came while a worker was running:
\* the first item was written by its worker, the second by the fill.
C4_Witness ==
    /\ CheckReturned
    /\ ctxErr # "nil"
    /\ N >= 2
    /\ writers[1] = <<"worker">>
    /\ Local(1).pc = "exited"
    /\ writers[2] = <<"cancel">>

\* What checkSingle can return for a domain: ErrInvalidDomain for an invalid
\* one; else a result of one of the servers, or ErrAllDNSFailed.
CheckSingleOutcomes(raw) ==
    LET d == normalizeDomain(raw)
    IN  IF ~IsValidDomain(d)
        THEN {Result(d, FALSE, <<>>, Err("ErrInvalidDomain", d))}
        ELSE {Result(d, b, servers[k].Address, NoError) :
                 b \in BOOLEAN, k \in DOMAIN servers}
             \cup {Result(d, FALSE, <<>>, Err("ErrAllDNSFailed", <<>>))}

\* C5: when Check has returned, an item whose per-item logic panicked has the
\* result {its domain, ErrInternalPanic}; every other item that was started
\* has an outcome of checkSingle for its domain; and with a live context
\* every item was started (none was filled in by the dispatcher) and Check's
\* own error is nil.
C5_PanicIsLocalToItem ==
    CheckReturned =>
        /\ \A i \in 1..N :
              /\ writers[i] = <<"panic">> =>
                    results[i] = Result(domains[i], FALSE, <<>>,
                                        Err("ErrInternalPanic", <<"cache panic">>))
              /\ writers[i] = <<"worker">> =>
                    results[i] \in CheckSingleOutcomes(domains[i])
        /\ ctxErr = "nil" =>
              /\ retErr = NoError
              /\ \A i \in 1..N : writers[i] \in {<<"worker">>, <<"panic">>}

\* With one admission slot and a live context, the first item panicked and
\* the second, admitted after it, was checked normally.
C5_Witness ==
    /\ CheckReturned
    /\ ctxErr = "nil"
    /\ concurrency = 1
    /\ N >= 2
    /\ writers[1] = <<"panic">>
    /\ writers[2] = <<"worker">>
    /\ results[2].Error = NoError

\* ==================================================================
\* Properties of queryWithRetries and checkSingle (SpecOne)
\* ==================================================================
\* Positions of the log that are probe attempts (calls of queryDNS).
Probes == {k \in DOMAIN log : log[k].ev \in {"err", "resp"}}

\* The response at position k of the log contains the server's keyword.
Hit(k) ==
    /\ log[k].ev = "resp"
    /\ containsKeyword(log[k].resp, servers[log[k].s].Keyword)

\* The caller's last queryWithRetries call has returned.
QueryDone == qret.state \in {"ok", "err"}

\* C6: a response that contains the server's keyword is the last event of
\* its queryWithRetries call (no attempt follows it), and the call returned a
\* blocked result of that server with a nil error, whatever came before.
C6_BlockedReturnsAtOnce ==
    \A k \in DOMAIN log :
        Hit(k) =>
            /\ k = Len(log)
            /\ qret.state = "ok"
            /\ qret.err = NoError
            /\ qret.res.Blocked
            /\ qret.res.Error = NoError
            /\ qret.res.Server = servers[log[k].s].Address

\* With three attempts allowed, the first failed and the second was
\* blocked: the call returned blocked and the third was never made.
C6_Witness ==
    /\ maxRetries = 2
    /\ Len(log) = 3
    /\ log[1].ev = "err"
    /\ log[2].ev = "backoff"
    /\ Hit(3)
    /\ qret.state = "ok"

\* The caller's checkSingle call has returned to CheckOne's caller.
OneDone == Local(Caller).pc = "idle" /\ calls > 0 /\ Len(servers) # 0

\* C7: checkSingle consults the servers in configured order, probes only the
\* server it is consulting, and consults a further server only after the
\* previous one's probes ended in an error; the first cache hit or non-error
\* probe outcome ends the call and the result names that server; only when
\* every server failed is the result ErrAllDNSFailed.
C7_FirstSuccessWins ==
    /\ \A k \in DOMAIN visited :
          /\ visited[k].s = k
          /\ k < Len(visited) => visited[k].out = "err"
    /\ \A k \in DOMAIN log : log[k].s = Len(visited)
    /\ OneDone /\ visited # <<>> =>
          LET last == visited[Len(visited)]
          IN  IF last.out \in {"hit", "ok"}
              THEN /\ oneRet.Error = NoError
                   /\ oneRet.Server = servers[last.s].Address
                   /\ oneErr = NoError
              ELSE /\ last.out = "err"
                   /\ Len(visited) = Len(servers)
                   /\ oneRet.Error = Err("ErrAllDNSFailed", <<>>)

\* Failover: the first of two servers failed, the second answered, and
\* CheckOne returned the second server's result with no error.
C7_Witness ==
    /\ OneDone
    /\ Len(visited) = 2
    /\ visited[1].out = "err"
    /\ visited[2].out = "ok"
    /\ oneRet.Server = Server2.Address
    /\ oneRet.Error = NoError

\* C8: queryWithRetries makes at most maxRetries+1 probe attempts; it
\* returns a clear result only after exactly maxRetries+1 attempts of which
\* none matched the keyword and at least one was answered; and when every
\* attempt is answered without a match it returns clear.
C8_ClearOnlyAfterAllAttempts ==
    /\ Cardinality(Probes) <= maxRetries + 1
    /\ qret.state = "ok" /\ ~qret.res.Blocked =>
          /\ Cardinality(Probes) = maxRetries + 1
          /\ \A k \in Probes : ~Hit(k)
          /\ \E k \in Probes : log[k].ev = "resp"
          /\ qret.res.Error = NoError
    /\ QueryDone /\ (\A k \in DOMAIN log : log[k].ev = "resp" /\ ~Hit(k)) =>
          /\ Cardinality(Probes) = maxRetries + 1
          /\ qret.state = "ok"
          /\ ~qret.res.Blocked

\* A clear result returned after three attempts, one of which failed.
C8_Witness ==
    /\ maxRetries = 2
    /\ qret.state = "ok"
    /\ ~qret.res.Blocked
    /\ \E k \in Probes : log[k].ev = "err"

\* The last probe attempt of the log.
LastProbe == log[CHOOSE k \in Probes : \A j \in Probes : j <= k]

\* C9: when all maxRetries+1 attempts ended in an error, queryWithRetries
\* returns the error of the last attempt and the zero Result.
C9_LastErrorReturned ==
    /\ QueryDone
    /\ Cardinality(Probes) = maxRetries + 1
    /\ \A k \in Probes : log[k].ev = "err"
    => qret = Failed(LastProbe.err)

\* Every attempt failed, the first and the last with different errors.
C9_Witness ==
    /\ qret.state = "err"
    /\ Cardinality(Probes) = maxRetries + 1
    /\ \A k \in Probes : log[k].ev = "err"
    /\ log[1].err # LastProbe.err

\* C10: a backoff wait comes only directly after an attempt that ended in an
\* error, so never between two consecutive answered probes.
C10_BackoffOnlyAfterError ==
    \A k \in DOMAIN log :
        log[k].ev = "backoff" => k > 1 /\ log[k - 1].ev = "err"

\* The last CheckOne call, at least the second one, has returned.
SecondDone == Local(Caller).pc = "idle" /\ calls >= 2

\* The last CheckOne call made no probe: every server it consulted was a
\* cache hit.
NoExchange == \A k \in DOMAIN visited : visited[k].out = "hit"

\* C11 as claimed: with the cache in use, two consecutive CheckOne calls for
\* the same domain, both made within one TTL, return identical outcomes and
\* the second makes no DNS exchange.
C11_SecondCallIdentical ==
    SecondDone /\ cacheOn /\ oneDom = prev.raw /\ now <= CacheTTL =>
        /\ oneRet = prev.ret
        /\ oneErr = prev.err
        /\ NoExchange

\* C11, amended: the second of two consecutive CheckOne calls for the same
\* domain returns the outcome of the first and makes no DNS exchange when
\* the first call's result came from the first server of the list and the
\* second call is made before that server's cache entry for the domain
\* expires, when the domain is invalid, and when the server list is empty.
C11_SecondCallHitsFirstServer ==
    /\ SecondDone
    /\ cacheOn
    /\ oneDom = prev.raw
    /\ \/ servers = <<>>
       \/ prev.ret.Error.is = "ErrInvalidDomain"
       \/ /\ prev.ret.Error = NoError
          /\ prev.ret.Server = servers[1].Address
          /\ now <= prev.exp
    => /\ oneRet = prev.ret
       /\ oneErr = prev.err
       /\ NoExchange

\* The second call was answered from the cache one tick after the first
\* call stored the first server's blocked result.
C11_Witness ==
    /\ SecondDone
    /\ oneDom = prev.raw
    /\ prev.ret.Blocked
    /\ prev.ret.Server = servers[1].Address
    /\ now = prev.exp
    /\ visited = <<[s |-> 1, out |-> "hit"]>>
    /\ oneRet = prev.ret

\* ==================================================================
\* Properties of the memoryCache (SpecCache)
\* ==================================================================
\* C12: a Get returns (value, true) exactly when the key was Set since the
\* last Flush and Get evaluates the entry no later than one TTL after that
\* Set; the value is the one that Set stored, and the entry returned has not
\* passed its expiry instant.
C12_NeverReturnsExpired ==
    \A p \in Clients :
        seen[p].key # <<>> =>
            /\ seen[p].ok <=>
                   seen[p].w >= 0 /\ seen[p].at <= seen[p].w + CacheTTL
            /\ seen[p].ok =>
                   /\ seen[p].at <= seen[p].exp
                   /\ seen[p].res = seen[p].wres

\* One user's Get hit an entry exactly at its expiry instant, another's
\* missed the same key one tick later.
C12_Witness ==
    \E p, q \in Clients :
        /\ seen[p].key # <<>>
        /\ seen[p].key = seen[q].key
        /\ seen[p].ok /\ seen[p].at = seen[p].w + CacheTTL
        /\ ~seen[q].ok /\ seen[q].w = seen[p].w /\ seen[q].at = seen[p].at + 1

\* C13: a Get that found its entry expired leaves the key absent unless a
\* Set wrote the key after Get's read, and then that entry is untouched; so
\* an entry that is still within its TTL is never removed by a Get.
C13_DeletesOnlyWhatItRead ==
    /\ \A p \in Clients : seen[p].del => (seen[p].gone <=> ~seen[p].raced)
    /\ \A k \in DOMAIN written :
          now <= written[k].at + CacheTTL =>
              /\ k \in DOMAIN entries
              /\ entries[k] = [result |-> written[k].res,
                               expiresAt |-> written[k].at + CacheTTL]

\* A Set raced between one user's read of an expired entry and its delete:
\* the fresh entry survived, and the other user's later Get hit it.
C13_Witness ==
    \E p, q \in Clients :
        /\ seen[p].del /\ seen[p].raced /\ ~seen[p].gone
        /\ seen[q].key = seen[p].key
        /\ seen[q].ok
        /\ seen[q].w >= seen[p].at

\* ==================================================================
\* Properties of the server list (SpecReg, SpecHot)
\* ==================================================================
\* The process is inside an iteration of checkSingle's loop over the servers.
Iterating(p) ==
    Local(p).pc \in {"get", "getDel", "query", "backoff", "exchange", "set"}

\* History: the lists c.servers held at New and after each completed call.
Committed == {committed[k].list : k \in DOMAIN committed}

\* C14: a checkSingle that entered its loop over the servers between two
\* calls of SetServers and DeleteServers works, in every iteration, on the
\* server that the list held at that position when the loop was entered,
\* whatever calls happen meanwhile.
C14_InFlightKeepsItsList ==
    \A p \in Procs :
        Iterating(p) /\ Local(p).began \in Committed =>
            /\ Local(p).n = Len(Local(p).began)
            /\ Local(p).s \in 1..Len(Local(p).began)
            /\ Local(p).srv = Local(p).began[Local(p).s]

\* C15: the list a Servers() call returns is the list as it was before or
\* after each call of SetServers and DeleteServers, never a list in which
\* only part of a call's updates are applied.
C15_ReaderSeesWholeCalls == ~got.partial

\* History: every completed call turned the list it found into the list the
\* call's sequential meaning gives.
Serialized ==
    \A k \in 2..Len(committed) :
        committed[k].list = ApplyOp(committed[k - 1].list, committed[k].op)

\* C16: the calls of SetServers and DeleteServers take effect one after the
\* other, so that when all have returned every server set under a new
\* address is present unless deleted and every deleted address is absent
\* unless set, and no check running meanwhile panics.
C16_SerializedAndNoPanic ==
    /\ Serialized
    /\ (\A w \in Writers : wr[w].pc = "done") =>
          /\ (\A w \in Writers : wr[w].op.kind \in {"set", "none"}) =>
                \A w \in Writers : \A k \in DOMAIN wr[w].op.args :
                    \E j \in DOMAIN servers :
                        servers[j].Address = wr[w].op.args[k].Address
          /\ (\A w \in Writers : wr[w].op.kind \in {"delete", "none"}) =>
                \A w \in Writers : \A k \in DOMAIN wr[w].op.args :
                    \A j \in DOMAIN servers :
                        servers[j].Address # wr[w].op.args[k]
    /\ \A p \in Procs : Local(p).pc \notin {"panicked", "recover"}

\* What Check leaves in results[j] when it finds the context done before it
\* dispatches item j.
CancelledResult(j) == Result(domains[j], FALSE, <<>>, Err(atCall, <<>>))

\* No worker of the Check call was started, and nothing was stored in the
\* cache.
NothingDispatched ==
    /\ \A p \in Workers : Local(p) = Idle("idle")
    /\ entries = <<>>

\* C17 as claimed: when the context is already done at the call of Check,
\* the call returns the context's error and one result per domain carrying
\* that error, and no worker makes a DNS exchange or a cache access.
C17_CancelledCallCancelsAll ==
    atCall # "nil" =>
        /\ NothingDispatched
        /\ dpc = "returned" =>
              /\ retErr = Err(atCall, <<>>)
              /\ Len(results) = N
              /\ \A j \in 1..N : results[j] = CancelledResult(j)

\* C17, amended: the same, for a checker with at least one server; with no
\* server the call returns ErrNoDNSServers and no results, whatever the
\* context says.
C17_CancelledCallWithServers ==
    atCall # "nil" =>
        /\ NothingDispatched
        /\ dpc = "returned" =>
              IF Len(servers) = 0
              THEN retErr = Err("ErrNoDNSServers", <<>>) /\ results = <<>>
              ELSE /\ retErr = Err(atCall, <<>>)
                   /\ Len(results) = N
                   /\ \A j \in 1..N : results[j] = CancelledResult(j)

C17_Witness ==
    /\ atCall # "nil"
    /\ Len(servers) # 0
    /\ dpc = "returned"
    /\ N = MaxDomains
    /\ results[N] = CancelledResult(N)

\* C18: an item for which Check was waiting on a full semaphore when the
\* context was cancelled is never dispatched: its worker is never started.
C18_BlockedItemNotDispatched ==
    atCancel.blocked # 0 => Local(atCancel.blocked).pc = "idle"

\* C19: when a Check call during which the context was cancelled has
\* returned, every item that had no result yet at the cancellation, and
\* whose check then got no answer from a server or the cache (and whose
\* domain is valid, and whose worker did not panic), has a result whose
\* Error is the context's error.
C19_UnfinishedItemsCancelled ==
    ctxErr # "nil" /\ CheckReturned =>
        \A j \in (1..N) \ atCancel.done :
            results[j].Error.is \notin
                    {"nil", "ErrInvalidDomain", "ErrInternalPanic"} =>
                results[j].Error = Err(ctxErr, <<>>)

\* What an item ends with when no server answers and the context stays
\* live: ErrInvalidDomain for an invalid domain, ErrInternalPanic when the
\* cache panics on its key, else ErrAllDNSFailed.
AllFailResult(j) ==
    LET d == normalizeDomain(domains[j])
    IN  IF ~IsValidDomain(d)
        THEN Result(d, FALSE, <<>>, Err("ErrInvalidDomain", d))
        ELSE IF cacheOn /\ d \in panicOn
        THEN Result(domains[j], FALSE, <<>>,
                    Err("ErrInternalPanic", <<"cache panic">>))
        ELSE Result(d, FALSE, <<>>, Err("ErrAllDNSFailed", <<>>))

\* C20 as claimed, the all-fail part: when none of the checker's servers
\* can be reached, a Check call that has returned under a live context has
\* returned one result per domain, each carrying ErrAllDNSFailed.
C20_AllFailedForEveryItem ==
    ~reachable /\ ctxErr = "nil" /\ CheckReturned =>
        /\ Len(results) = N
        /\ \A j \in 1..N : results[j].Error = Err("ErrAllDNSFailed", <<>>)

\* Check has returned with every slot released and every worker gone; on a
\* checker with servers none of which can be reached, under a context that
\* is still live, each item carries its all-fail result.
Finished ==
    /\ dpc = "returned"
    /\ sem = 0
    /\ wg = 0
    /\ \A p \in Workers : Local(p).pc \in {"idle", "exited"}
    /\ (~reachable /\ ctxErr = "nil" /\ Len(servers) # 0) =>
          /\ Len(results) = N
          /\ \A j \in 1..N : results[j] = AllFailResult(j)

\* C20, amended: under fair scheduling every Check call returns, with every
\* admission slot it acquired released (also by workers that panicked), and
\* when no server can be reached, the servers are not none and the context
\* is live, with one result per domain that carries ErrAllDNSFailed unless
\* the domain is invalid or the cache panicked on it.
C20_CheckReturnsAllReleased == (dpc # "idle") ~> Finished

C20_Witness ==
    /\ Finished
    /\ ~reachable
    /\ ctxErr = "nil"
    /\ Len(servers) # 0
    /\ N = MaxDomains
    /\ concurrency < N
    /\ \E j \in 1..N : results[j].Error = Err("ErrAllDNSFailed", <<>>)
    /\ \E j \in 1..N : results[j].Error.is = "ErrInternalPanic"

\* The context was cancelled while the caller's queryWithRetries call was
\* waiting out a backoff, and the log is still that call's.
CancelledInBackoff ==
    /\ atCancel.wait # 0
    /\ atCancel.call = calls
    /\ atCancel.visit = Len(visited)

\* C21: when the context is cancelled while queryWithRetries waits out a
\* backoff, the call makes no further probe attempt and returns the
\* context's error.
C21_BackoffCancelledReturns ==
    CancelledInBackoff =>
        /\ Len(log) = atCancel.wait
        /\ log[Len(log)].ev = "backoff"
        /\ \/ Local(Caller).pc = "backoff" /\ qret = Running
           \/ qret = Failed(Err(ctxErr, <<>>))

C21_Witness ==
    /\ CancelledInBackoff
    /\ qret = Failed(Err(ctxErr, <<>>))
    /\ Cardinality(Probes) < maxRetries + 1

\* The caller's checkSingle call is about to return ErrAllDNSFailed.
AllFailed ==
    /\ Local(Caller).pc = "write"
    /\ Local(Caller).ret.Error = Err("ErrAllDNSFailed", <<>>)

\* C22: when checkSingle returns ErrAllDNSFailed it has consulted every
\* server of the list, each consultation ended in an error, and the last
\* queryWithRetries call (like every one before it) made all maxRetries+1
\* probe attempts, each of which ended in an error.
C22_AllFailedAfterAllAttempts ==
    AllFailed =>
        /\ {visited[k].s : k \in DOMAIN visited} = DOMAIN servers
        /\ \A k \in DOMAIN visited : visited[k].out = "err"
        /\ Len(servers) # 0 =>
              /\ qret.state = "err"
              /\ Cardinality(Probes) = maxRetries + 1
              /\ \A k \in Probes : log[k].ev = "err"

\* The domain fails IsValidDomain after normalisation.
Invalid(raw) == ~Valid[Normalized[raw]]

\* What checkSingle returns for an invalid domain.
InvalidResult(raw) ==
    Result(Normalized[raw], FALSE, <<>>,
           Err("ErrInvalidDomain", Normalized[raw]))

\* Where a checkSingle call is when it consults no server: before its
\* validation, or returning.
Untouched(p) ==
    Local(p).pc \in {"idle", "start", "write", "release", "wgdone", "exited"}

\* C23 as claimed: for an invalid domain Check and CheckOne yield a result
\* whose Error is ErrInvalidDomain.
C23_InvalidAlwaysReported ==
    /\ dpc = "returned" =>
          \A j \in 1..N :
              Invalid(domains[j]) =>
                  /\ j \in DOMAIN results
                  /\ results[j].Error.is = "ErrInvalidDomain"
    /\ calls > 0 /\ Local(Caller).pc = "idle" /\ Invalid(oneDom) =>
          oneRet.Error.is = "ErrInvalidDomain"

\* C23, amended: for an invalid domain checkSingle consults no server: it
\* makes no cache lookup, no probe and no cache store, and returns the
\* ErrInvalidDomain result.  That is the item's result in Check when Check
\* dispatched the item, and CheckOne's result when the checker has a
\* server.
C23_InvalidConsultsNothing ==
    /\ \A j \in 1..N :
          Invalid(domains[j]) =>
              /\ Untouched(j)
              /\ Local(j).pc = "write" => Local(j).ret = InvalidResult(domains[j])
              /\ j \in DOMAIN writers /\ writers[j] = <<"worker">> =>
                    results[j] = InvalidResult(domains[j])
    /\ calls > 0 /\ Invalid(oneDom) =>
          /\ Untouched(Caller)
          /\ visited = <<>>
          /\ log = <<>>
          /\ Local(Caller).pc = "idle" /\ Len(servers) # 0 =>
                oneRet = InvalidResult(oneDom) /\ oneErr = NoError

C23_Witness ==
    /\ CheckReturned
    /\ N = MaxDomains
    /\ writers[1] = <<"worker">>
    /\ Invalid(domains[1])
    /\ results[1] = InvalidResult(domains[1])
    /\ ~Invalid(domains[2])
    /\ results[2].Error = NoError

\* C24: a CheckOne call that finds the list empty returns ErrNoDNSServers
\* and the zero Result without consulting anything, and a check reports
\* ErrAllDNSFailed only after it consulted at least one server: never for
\* an empty list.
C24_EmptyListNeverAllFailed ==
    /\ oneErr = Err("ErrNoDNSServers", <<>>) =>
          /\ oneRet = ZeroResult
          /\ Local(Caller).pc = "idle" => visited = <<>> /\ log = <<>>
    /\ AllFailed => visited # <<>>

\* C25: a key that was Set before a Flush and has not been Set again since
\* has no entry, and a Get of it misses.
C25_FlushedKeysMiss ==
    /\ \A k \in flushed : k \notin DOMAIN entries
    /\ \A p \in Clients : seen[p].fl => ~seen[p].ok /\ seen[p].exp = -1

\* After a Flush one user's Get missed a key that had been Set before it,
\* within the TTL of that Set, and another's hit a key Set again since.
C25_Witness ==
    \E p, q \in Clients :
        /\ seen[p].fl /\ ~seen[p].ok /\ seen[p].at = 0
        /\ seen[q].ok /\ seen[q].key # seen[p].key
        /\ seen[p].key \in flushed
        /\ seen[q].key \notin flushed

\* ==================================================================
\* Properties of the cache key across SetServers (SpecKey)
\* ==================================================================
\* The entry the caller's lookup is about to find, if the cache holds one.
Found == Local(Caller).pc = "get" /\ Key(Local(Caller)) \in DOMAIN entries

\* C26 as stated: once SetServers has replaced the keyword or the query type
\* of the server at an address and returned, CheckOne's lookup for that
\* server never finds an outcome that was stored under the former keyword or
\* query type: what it finds was stored for the same domain, address,
\* keyword and query type.
C26_LookupFindsOwnKeywordAndType ==
    /\ Found
    /\ \A w \in Writers : wr[w].pc \in {"idle", "done"}
    /\ Local(Caller).began = servers
    =>
        LET l == Local(Caller)
            e == keyed[Key(l)]
        IN  /\ e.d = l.d
            /\ e.srv.Address = Srv(l).Address
            /\ e.srv.Keyword = Srv(l).Keyword
            /\ e.srv.QueryType = Srv(l).QueryType

\* C26 amended: the lookup never finds an outcome stored under another
\* keyword or another record type (the type parseQueryType gives the query
\* type); a query type replaced by one of the same record type keeps the key.
C26_LookupFindsOwnKeywordAndRecordType ==
    Found =>
        LET l == Local(Caller)
            e == keyed[Key(l)]
        IN  /\ e.d = l.d
            /\ e.srv.Address = Srv(l).Address
            /\ e.srv.Keyword = Srv(l).Keyword
            /\ parseQueryType(e.srv.QueryType) = parseQueryType(Srv(l).QueryType)

\* The second CheckOne, called after SetServers gave the first server a new
\* keyword, has missed the cache, which still holds the first call's outcome
\* for the domain under the old keyword, and is probing the server again.
C26_Witness ==
    LET l == Local(Caller)
        old == cacheKey(l.d, Server1, parseQueryType(Server1.QueryType))
    IN  /\ calls = 2
        /\ wr[1].pc = "done"
        /\ wr[1].op.args = <<Server1b>>
        /\ l.pc = "exchange"
        /\ l.began = servers
        /\ Srv(l) = Server1b
        /\ visited = <<[s |-> 1, out |-> "pending"]>>
        /\ old \in DOMAIN entries
        /\ keyed[old] = [d |-> l.d, srv |-> Server1]
        /\ prev.ret = entries[old].result
        /\ Key(l) \notin DOMAIN entries

\* ==================================================================
\* Properties of SetServers and DeleteServers as functions of the list
\* (SpecReg)
\* ==================================================================
Addresses(list) == {list[k].Address : k \in DOMAIN list}

\* The last of the servers args gives for address a.
LastFor(args, a) ==
    args[CHOOSE j \in DOMAIN args :
            /\ args[j].Address = a
            /\ \A x \in DOMAIN args : args[x].Address = a => x <= j]

\* The positions in args at which an address that list lacks first appears.
NewAt(list, args) ==
    {j \in DOMAIN args :
        /\ args[j].Address \notin Addresses(list)
        /\ \A x \in 1..(j - 1) : args[x].Address # args[j].Address}

\* after is before with the servers args upserted: the first entry of each
\* given address holds the last server given for it, every other entry is as
\* it was and where it was, and the addresses that were missing follow at
\* the end in the order they were given.
Upserted(before, after, args) ==
    /\ Len(after) = Len(before) + Cardinality(NewAt(before, args))
    /\ \A i \in DOMAIN before :
          after[i] =
             IF /\ before[i].Address \in Addresses(args)
                /\ \A x \in 1..(i - 1) : before[x].Address # before[i].Address
             THEN LastFor(args, before[i].Address)
             ELSE before[i]
    /\ \A j \in NewAt(before, args) :
          after[Len(before) + Cardinality({x \in NewAt(before, args) : x <= j})]
             = LastFor(args, args[j].Address)

\* C27: every SetServers call that has returned left the list it found with
\* each given server in place of the entry of the same address, or appended
\* at the end when there was none, in argument order, and every other entry
\* unchanged in place; the list changes only inside a call that was given
\* arguments, so a call with no argument leaves it as it is.
C27_SetServersUpserts ==
    /\ \A k \in 2..Len(committed) :
          committed[k].op.kind = "set" =>
              Upserted(committed[k - 1].list, committed[k].list,
                       committed[k].op.args)
    /\ mu = 0 => servers = committed[Len(committed)].list
    /\ \A k \in 2..Len(committed) : committed[k].op.args # <<>>

\* Both configured servers were replaced in place by one call after another
\* call had appended a server, and a third server now follows them.
C27_Witness ==
    /\ Len(committed) = 3
    /\ committed[2].op = [kind |-> "set", args |-> <<Server3>>]
    /\ committed[3].op = [kind |-> "set", args |-> <<Server1b, Server2b>>]
    /\ committed[3].list = <<Server1b, Server2b, Server3>>
    /\ servers = committed[3].list

\* The positions of list whose address is not among addrs.
Kept(list, addrs) ==
    {i \in DOMAIN list : \A j \in DOMAIN addrs : list[i].Address # addrs[j]}

\* after is before without the entries whose address is among addrs, the
\* others in the order they had.
WithoutAddresses(before, after, addrs) ==
    /\ Len(after) = Cardinality(Kept(before, addrs))
    /\ \A i \in Kept(before, addrs) :
          after[Cardinality({x \in Kept(before, addrs) : x <= i})] = before[i]

\* C28: every DeleteServers call that has returned left the list it found
\* without the entries whose address it was given and with every other
\* entry in its former order, which is the list as it was when none of the
\* addresses was present; the list changes only inside a call that was
\* given arguments, so a call with no argument leaves it as it is.
C28_DeleteServersRemoves ==
    /\ \A k \in 2..Len(committed) :
          committed[k].op.kind = "delete" =>
              LET before == committed[k - 1].list
                  after  == committed[k].list
                  addrs  == committed[k].op.args
              IN  /\ WithoutAddresses(before, after, addrs)
                  /\ Addresses(after) = Addresses(before) \ Range(addrs)
                  /\ Range(addrs) \cap Addresses(before) = {} => after = before
    /\ (\A w \in Writers : wr[w].pc \in {"idle", "done"}) =>
          servers = committed[Len(committed)].list
    /\ \A k \in 2..Len(committed) : committed[k].op # NoOp

\* After one call had appended a third server, another deleted the first:
\* the two others stayed, in their order.
C28_Witness ==
    /\ Len(committed) = 3
    /\ committed[2].list = <<Server1, Server2, Server4>>
    /\ committed[3].op = [kind |-> "delete", args |-> <<Server1.Address>>]
    /\ committed[3].list = <<Server2, Server4>>
    /\ servers = <<Server2, Server4>>
    /\ \A w \in Writers : wr[w].pc = "done"

\* C29: the slice Servers() returned holds what it held when it was
\* returned, whatever SetServers and DeleteServers calls have happened
\* since, except for the element its holder assigned to; and that
\* assignment never shows in the Checker's list.
C29_ReturnedSliceIndependent ==
    /\ DOMAIN ReturnedSlice = DOMAIN got.ret
    /\ \A i \in DOMAIN got.ret :
          IF got.mutated /\ i = 1 THEN ReturnedSlice[i] = Scribble
          ELSE ReturnedSlice[i] = got.ret[i]
    /\ \A k \in DOMAIN servers : servers[k] # Scribble
    /\ \A k \in DOMAIN committed :
          \A i \in DOMAIN committed[k].list :
              committed[k].list[i] # Scribble

\* Servers() returned both servers; its holder overwrote the first element;
\* a SetServers call then replaced both servers in the Checker: the slice
\* still holds the second server as returned, and the Checker's list holds
\* the replacements.
C29_Witness ==
    /\ got.n = 1
    /\ got.mutated
    /\ got.ret = <<Server1, Server2>>
    /\ ReturnedSlice = <<Scribble, Server2>>
    /\ servers = <<Server1b, Server2b>>
    /\ \A w \in Writers : wr[w].pc \in {"idle", "done"}

\* ==================================================================
\* Properties of DNSStatus (SpecStatus)
\* ==================================================================
\* C30: DNSStatus never panics, and when it returns statuses they are one
\* per server of the list as it was at the call, in the list's order, each
\* with the address of its server, whatever SetServers and DeleteServers
\* calls run meanwhile.
C30_OneStatusPerServerNoPanic ==
    /\ health.pc # "panicked"
    /\ health.pc = "returned" /\ health.began # <<>> =>
          /\ Len(health.statuses) = Len(health.began)
          /\ \A i \in DOMAIN health.statuses :
                health.statuses[i].Server = health.began[i].Address

\* ==================================================================
\* Properties of queryDNS's error classification (SpecOne)
\* ==================================================================
\* The errors queryDNS returns to the caller's queryWithRetries in this step.
NewErrors ==
    {log'[k].err : k \in {x \in (Len(log) + 1)..Len(log') : log'[x].ev = "err"}}

\* A deadline that was exceeded gives ErrDNSTimeout, a transport timeout is
\* never returned as it is, and ErrDNSTimeout is given for nothing else.
TimeoutsClassified(e) ==
    /\ ctxErr = "context.DeadlineExceeded" => e.is = "ErrDNSTimeout"
    /\ e.is # NetTimeout.name
    /\ e.is = "ErrDNSTimeout" =>
          \/ ctxErr = "context.DeadlineExceeded"
          \/ e.txt = <<NetTimeout.name>>

\* C31 as stated: a failed exchange is ErrDNSTimeout when the context's
\* deadline was exceeded or the transport reported a timeout, any other
\* transport error is returned unchanged, and no exchange that fails while
\* the context is cancelled is ErrDNSTimeout.
C31_CancelledNeverTimeout ==
    [][\A e \in NewErrors :
          /\ TimeoutsClassified(e)
          /\ ctxErr = "context.Canceled" => e.is # "ErrDNSTimeout"]_vars

\* C31 amended: as above, except that under a cancelled context the
\* cancellation itself is returned unchanged while a timeout the transport
\* reports is still ErrDNSTimeout.
C31_CancellationNotReclassified ==
    [][\A e \in NewErrors :
          /\ TimeoutsClassified(e)
          /\ ctxErr = "context.Canceled" =>
                /\ e.txt # <<"context.Canceled">>
                /\ e.is = "ErrDNSTimeout" => e.txt = <<NetTimeout.name>>]_vars

\* Under a cancelled context queryDNS was called and returned the
\* cancellation as it is.
C31_Witness ==
    /\ ctxErr = "context.Canceled"
    /\ atCancel.call = calls
    /\ atCancel.visit = 0
    /\ log # <<>>
    /\ log[1].ev = "err"
    /\ log[1].err = Err("context.Canceled", <<>>)

\* ==================================================================
\* CheckOne against Check (SpecOne)
\* ==================================================================
\* What Check(ctx, d) yields for its single item when it finds the context
\* done at its first select: the item carries the context's error, and the
\* call returns it too.
CheckWhenDone(d) ==
    [ret |-> Result(d, FALSE, <<>>, Err(ctxErr, <<>>)),
     err |-> Err(ctxErr, <<>>)]

\* C32: CheckOne(ctx, d) yields what Check(ctx, d) yields for its single
\* item: a panic of the per-item logic does not reach the caller (Check
\* recovers it into the item's result), and a call made under a context that
\* is already cancelled returns the context's error and a result carrying it.
C32_CheckOneAsCheck ==
    /\ Local(Caller).pc # "panicked"
    /\ OneDone /\ ctxErr # "nil" /\ atCancel.call < calls =>
          /\ oneRet = CheckWhenDone(oneDom).ret
          /\ oneErr = CheckWhenDone(oneDom).err

\* ==================================================================
\* New(WithCache(nil)) (SpecOne)
\* ==================================================================
\* C33: a Checker made with WithCache(nil) checks as against a cache that
\* always misses: no lookup of a CheckOne call is a hit, so every call of a
\* valid domain probes afresh, and no call panics on the nil cache.
C33_NilCacheAlwaysMisses ==
    cacheOpt = "nil" =>
        /\ \A k \in DOMAIN visited : visited[k].out # "hit"
        /\ Local(Caller).pc # "panicked"

\* ==================================================================
\* The backoff of queryWithRetries (SpecBackoff)
\* ==================================================================
\* One resolver that never answers, probed by CheckOne calls under up to
\* MaxManyRetries retries.
InitBackoff ==
    /\ InitConfig(MaxManyRetries, {defaultConcurrency}, 0)
    /\ servers = <<Server1>>
    /\ cacheOpt = "none"
    /\ panicOn = {}
    /\ ~reachable

NextBackoff ==
    \/ CheckOne
    \/ Start(Caller)
    \/ RangeNext(Caller)
    \/ Get(Caller)
    \/ Backoff(Caller)
    \/ Query(Caller)
    \/ ExchangeFails(Caller, {NetTimeout})
    \/ OneReturn
    \/ Cancel

SpecBackoff == InitBackoff /\ [][NextBackoff]_vars

\* min(2^(k-1) seconds, 30 seconds), in nanoseconds.
CappedExponential ==
    [k \in 1..(MaxManyRetries + 1) |->
        Mul(Int64(IF k - 1 < 5 THEN 2^(k - 1) ELSE 30), Second)]

\* C34: the backoff waited before attempt k of queryWithRetries is
\* min(2^(k-1) seconds, 30 seconds) for every k up to maxRetries, however
\* large, and is never zero or negative.
C34_BackoffCappedExponential ==
    \A k \in DOMAIN log :
        log[k].ev = "backoff" =>
            /\ Backoffs[log[k].attempt] = CappedExponential[log[k].attempt]
            /\ ~FiresAtOnce(log[k].attempt)

\* ==================================================================
\* New and its options (SpecNew)
\* ==================================================================
\* Mutant of RetriesFor: the argument is stored as it is.
RetriesAsGiven(n) == n

\* What WithMaxRetries(n) stores in c.maxRetries.
RetriesFor(n) == IF n < 0 THEN defaultRetries ELSE n

\* What WithConcurrency(n) leaves in c.concurrency.
ConcurrencyFor(n) == IF n > 0 THEN n ELSE concurrency

OptionArgs == (0 - MaxArg)..MaxArg

\* An option New was given.
Opt(name, arg) == [opt |-> name, arg |-> arg]

\* New has made the Checker with its defaults and the copy of
\* defaultServers, and is about to run its options.
InitNew ==
    /\ InitFields(defaultRetries, {defaultConcurrency}, 0)
    /\ servers = defaultServers
    /\ maxRetries = defaultRetries
    /\ cacheOpt = "none"
    /\ panicOn = {}
    /\ reachable
    /\ opts = [applied |-> <<>>, ret |-> FALSE]
    /\ heap = [OwnArray EXCEPT !.peer = defaultServers]

\* The frame of an option.
Applied(o) ==
    /\ ~opts.ret
    /\ Len(opts.applied) < MaxOpts
    /\ opts' = [opts EXCEPT !.applied = Append(@, o)]
    /\ UNCHANGED <<cacheOn, cacheOpt, panicOn, reachable, mc, mu, wr, storing,
                   rd, got, committed, ctxErr, now, entries, dispatcher, proc,
                   caller, history, atCancel, health>>

\* New runs the next option, WithMaxRetries(n).
WithMaxRetries ==
    \E n \in OptionArgs :
        /\ maxRetries' = RetriesFor(n)
        /\ Applied(Opt("WithMaxRetries", n))
        /\ UNCHANGED <<servers, scap, concurrency, heap>>

\* New runs the next option, WithConcurrency(n).
WithConcurrency ==
    \E n \in OptionArgs :
        /\ concurrency' = ConcurrencyFor(n)
        /\ Applied(Opt("WithConcurrency", n))
        /\ UNCHANGED <<servers, scap, maxRetries, heap>>

\* New runs the next option, WithServers(list): c.servers is the caller's
\* slice, of a capacity with or without room to spare, and so is the list of
\* a second Checker made with the same options.
WithServers ==
    \E list \in ServerLists, spare \in 0..1 :
        /\ servers' = list
        /\ scap' = Len(list) + spare
        /\ heap' = [heap EXCEPT !.at = "given", !.given = list, !.peer = list]
        /\ Applied(Opt("WithServers", list))
        /\ UNCHANGED <<maxRetries, concurrency>>

\* New has run its options and returns the Checker.
NewReturn ==
    /\ ~opts.ret
    /\ opts' = [opts EXCEPT !.ret = TRUE]
    /\ committed' = <<[list |-> servers, op |-> NoOp]>>
    /\ UNCHANGED <<servers, maxRetries, concurrency, cacheOn, cacheOpt, panicOn,
                   reachable, heap, mc, scap, mu, wr, storing, rd, got, ctxErr,
                   now, entries, dispatcher, proc, caller, history, atCancel,
                   health>>

\* New, then CheckOne calls on the Checker it returned.
NextNew ==
    \/ WithMaxRetries
    \/ WithConcurrency
    \/ NewReturn
    \/ opts.ret /\ CheckOne
    \/ opts.ret /\ CheckSingle(Caller)
    \/ opts.ret /\ OneReturn

SpecNew == InitNew /\ [][NextNew]_vars

\* The argument of the last option of the name that New has run and that
\* satisfies ok, else the default.
LastArg(name, ok(_), default) ==
    LET at == {k \in DOMAIN opts.applied :
                  opts.applied[k].opt = name /\ ok(opts.applied[k].arg)}
    IN  IF at = {} THEN default
        ELSE opts.applied[CHOOSE k \in at : \A j \in at : j <= k].arg

\* C35: whatever options New is given, the Checker has concurrency >= 1 and
\* maxRetries >= 0: WithConcurrency(n <= 0) leaves the previous value and
\* WithMaxRetries(n < 0) sets the default of 2; so every queryWithRetries
\* call that has returned made its first probe attempt.
C35_OptionsKeepBounds ==
    /\ concurrency >= 1
    /\ maxRetries >= 0
    /\ concurrency =
          LastArg("WithConcurrency", LAMBDA n : n > 0, defaultConcurrency)
    /\ maxRetries =
          LET n == LastArg("WithMaxRetries", LAMBDA x : TRUE, defaultRetries)
          IN  IF n < 0 THEN 2 ELSE n
    /\ qret.state \in {"ok", "err"} =>
          /\ log # <<>>
          /\ log[1].ev \in {"err", "resp"}
          /\ log[1].attempt = 0

\* New(WithMaxRetries(-1), WithConcurrency(0)) has returned a Checker with
\* the defaults, and a queryWithRetries call on it has returned.
C35_Witness ==
    /\ opts.ret
    /\ opts.applied = <<Opt("WithMaxRetries", 0 - 1), Opt("WithConcurrency", 0)>>
    /\ maxRetries = defaultRetries
    /\ concurrency = defaultConcurrency
    /\ qret.state \in {"ok", "err"}

\* ==================================================================
\* The resolver list of a Checker and other slices (SpecOwn)
\* ==================================================================
\* New, with or without WithServers, then SetServers and DeleteServers calls
\* on the Checker it returned.
NextOwn ==
    \/ WithServers
    \/ NewReturn
    \/ opts.ret /\ \E w \in Writers : Writer(w)

SpecOwn == InitNew /\ [][NextOwn]_vars

\* C36: SetServers and DeleteServers on a Checker leave alone what Servers()
\* returns on a second Checker (made with the same options, here), the
\* package default list, and the slice the caller passed to WithServers.
C36_ChangesStayInChecker ==
    opts.ret =>
        /\ heap.peer = committed[1].list
        /\ heap.defaults = defaultServers
        /\ heap.given = LastArg("WithServers", LAMBDA x : TRUE, <<>>)

\* ==================================================================
\* What checkSingle writes to the cache (SpecOne)
\* ==================================================================
\* The keys whose entry this step has written.
WrittenKeys ==
    {k \in DOMAIN entries' : k \notin DOMAIN entries \/ entries'[k] # entries[k]}

\* C37: every entry checkSingle writes to the cache is a result without
\* error whose Domain and Server are the normalized (valid) domain and the
\* resolver address its key is made of; a call writes one entry and then
\* returns it, so no call writes twice and no error outcome is cached.
C37_OnlyClearOutcomesCached ==
    [][\A k \in WrittenKeys :
          \E p \in Procs :
              LET l == proc[p]
                  r == entries'[k].result
              IN  /\ WrittenKeys = {k}
                  /\ l.pc = "set"
                  /\ proc'[p].pc = "write"
                  /\ proc'[p].ret = r
                  /\ r.Error = NoError
                  /\ r.Domain = normalizeDomain(l.raw)
                  /\ IsValidDomain(r.Domain)
                  /\ r.Server = l.srv.Address
                  /\ k = cacheKey(r.Domain, l.srv,
                                  parseQueryType(l.srv.QueryType))]_vars

\* CheckOne's checkSingle has failed over to the second resolver, stored its
\* result and is returning it.
C37_Witness ==
    /\ proc[Caller].pc = "write"
    /\ Len(visited) = 2
    /\ visited[1].out = "err"
    /\ visited[2].out = "ok"
    /\ \E k \in DOMAIN entries :
          /\ entries[k].result = proc[Caller].ret
          /\ entries[k].expiresAt = now + CacheTTL

\* ==================================================================
\* The fields of the results (SpecHot)
\* ==================================================================
\* The addresses of the resolvers the Checker has been configured with: at
\* New, by a completed SetServers call, or by one in progress.
KnownAddresses ==
    UNION {{committed[c].list[k].Address : k \in DOMAIN committed[c].list} :
              c \in DOMAIN committed}
    \cup {servers[k].Address : k \in DOMAIN servers}

\* A Result with an error has no verdict and no server; one without names
\* a resolver of the Checker.
WellFormed(r) ==
    /\ r.Error # NoError => ~r.Blocked /\ r.Server = <<>>
    /\ r.Error = NoError => r.Server \in KnownAddresses

\* C38: with the built-in cache, every Result that Check or CheckOne produced
\* (CheckOne without a call error) with an Error has Blocked = false and an
\* empty Server, and every one without an Error names in Server the address
\* of a configured resolver, the one whose probe or cache entry ended the
\* call.
C38_ErrorsBareServerNamed ==
    cacheOpt # "custom" =>
        /\ CheckReturned => \A i \in DOMAIN results : WellFormed(results[i])
        /\ Local(Caller).pc = "idle" /\ oneDom # <<>> /\ oneErr = NoError =>
              /\ WellFormed(oneRet)
              /\ oneRet.Error = NoError =>
                    /\ visited # <<>>
                    /\ visited[Len(visited)].out \in {"ok", "hit"}

\* ==================================================================
\* checkSingle after a cancellation (SpecOne)
\* ==================================================================
\* This step calls queryDNS again for the resolver the caller's checkSingle
\* is at.
CallsQueryDNSAgain ==
    /\ proc[Caller].pc = "query"
    /\ proc'[Caller] # proc[Caller]
    /\ log # <<>>

\* This step takes the caller's checkSingle from one resolver to the next.
ConsultsNext == Len(visited) >= 1 /\ Len(visited') > Len(visited)

\* C39: once the context is cancelled, the checkSingle call that was at a
\* resolver then calls queryDNS no more for that resolver, and moves on to no
\* later resolver.
C39_NothingStartedAfterCancel ==
    [][ctxErr # "nil" /\ atCancel.call = calls /\ atCancel.visit >= 1 =>
          ~CallsQueryDNSAgain /\ ~ConsultsNext]_vars

\* ==================================================================
\* FlushCache while checks are in flight (SpecFlush)
\* ==================================================================
\* Mutant of FlushCache: the entries are kept.
FlushCacheKeeps ==
    /\ cacheOn
    /\ stale' = [made |-> TRUE,
                 before |-> {p \in Procs : proc[p].pc # "idle"},
                 pending |-> {p \in Procs : proc[p].pc = "set"},
                 old |-> {},
                 since |-> {},
                 hit |-> {}]
    /\ UNCHANGED <<config, reg, entries, client, seen, written, flushed, keyed,
                   ctxErr, now, dispatcher, proc, caller, history, atCancel,
                   health>>

\* Checker.FlushCache(): with a cache, memoryCache.Flush() replaces the map
\* under the lock.  History: the checks already started, those of them that
\* have their outcome and are about to store it, no key stored and no hit
\* since.
FlushCache ==
    /\ cacheOn
    /\ entries' = <<>>
    /\ written' = <<>>
    /\ flushed' = flushed \cup DOMAIN written
    /\ client' = [q \in Clients |-> [client[q] EXCEPT !.fresh = FALSE]]
    /\ stale' = [made |-> TRUE,
                 before |-> {p \in Procs : proc[p].pc # "idle"},
                 pending |-> {p \in Procs : proc[p].pc = "set"},
                 old |-> {},
                 since |-> {},
                 hit |-> {}]
    /\ UNCHANGED <<config, reg, seen, keyed, ctxErr, now, dispatcher, proc,
                   caller, history, atCancel, health>>

\* One Check call against one resolver that answers, its workers two at a
\* time, while another goroutine calls FlushCache.
InitFlush ==
    /\ InitConfig(0, {MaxConcurrency}, 0)
    /\ servers = <<Server1>>
    /\ cacheOpt = "none"
    /\ panicOn = {}
    /\ reachable

NextFlush ==
    \/ Check
    \/ Select
    \/ Acquire
    \/ Wait
    \/ \E p \in Procs \ {Caller} :
          \/ Start(p)
          \/ RangeNext(p)
          \/ Get(p)
          \/ Query(p)
          \/ ExchangeError(p)
          \/ ExchangeResponse(p)
          \/ Set(p)
          \/ Write(p)
          \/ Release(p)
          \/ WgDone(p)
    \/ FlushCache

SpecFlush == InitFlush /\ [][NextFlush]_vars

\* This step is a cache hit of process p.
HitBy(p) == proc[p].pc = "get" /\ proc'[p].pc = "write"

\* Process p started after the last FlushCache call returned.
StartedAfterFlush(p) == stale.made /\ p \notin stale.before

\* C40, as stated: a check that starts after FlushCache returned never hits
\* an outcome that was probed before the flush, not even one stored after the
\* flush by a check that was in flight during it.
C40_NoHitOnOutcomeProbedBeforeFlush ==
    [][\A p \in Procs :
          HitBy(p) /\ StartedAfterFlush(p) => Key(proc[p]) \notin stale.old]_vars

\* C40, amended: a check that starts after FlushCache returned never hits an
\* entry that was stored before the flush; whatever it hits was stored after
\* the flush returned.
C40_HitsOnlyEntriesStoredAfterFlush ==
    [][\A p \in Procs :
          HitBy(p) /\ StartedAfterFlush(p) => Key(proc[p]) \in stale.since]_vars

\* A check that started after the flush has its result from a cache hit on an
\* entry that a check in flight during the flush stored after it.
C40_Witness ==
    \E h \in stale.hit :
        /\ StartedAfterFlush(h[1])
        /\ proc[h[1]].pc = "write"
        /\ h[2] \in stale.old \cap stale.since

====
